---- MODULE Spec2Model ----
(***************************************************************************)
(* Lurker: the watcher Manager (pkg/watcher/watcher.go), its pollers and   *)
(* issue workers, the durable state file, the event channel and the        *)
(* presentation model (pkg/tui/model.go) that consumes it.                 *)
(***************************************************************************)
EXTENDS Integers, Sequences, FiniteSets, TLC

\* ------------------------------------------------------------------ bounds

\* Issue numbers the hosting service may report: 1..MaxIssueNum.
MaxIssueNum == 1
\* Cancellation scopes (context.WithCancel) created in one behaviour.
MaxCtx == 3
\* Process restarts (NewManager on the persisted state) in one behaviour.
MaxRestarts == 1
\* Entries in the processed list of one repository.
MaxMarks == 2
\* Entries in the watched list.
MaxRepoList == 3
\* Events buffered in the channel at once: a producer that finds this many
\* waits, as it does at the channel's capacity.
MaxQueue == 2
\* Output lines one agent run streams.
MaxClaudeLogs == 1
\* Commands the operator gives in one behaviour of the whole program.
MaxKeys == 3
\* Failures of the environment (network, git, agent, pty, file system) in
\* one behaviour of the running program.
MaxFaults == 1
\* Poll-timer ticks taken in one behaviour, after each poller's first poll.
MaxTicks == 1

\* Repository identifiers offered to AddRepo/RemoveRepo.  One is a proper
\* prefix of the other, so that key-prefix matching is exercised.
RepoIds == {"o/a", "o/ab"}
IssueNums == 1..MaxIssueNum

\* ------------------------------------------------------------------ values

\* eventCh is make(chan Event, 100).
ChanCap == 100

\* IssueKey: fmt.Sprintf("%s#%d", repo, num).
IssueKey(repo, num) == repo \o "#" \o ToString(num)

\* len(key) >= len(prefix) && key[:len(prefix)] == prefix
HasPrefix(key, prefix) ==
    Len(key) >= Len(prefix) /\ SubSeq(key, 1, Len(prefix)) = prefix

\* The prefix RemoveRepo matches keys against: repo + "#".
RepoPrefix(repo) == repo \o "#"

AllKeys == {IssueKey(r, n) : r \in RepoIds, n \in IssueNums}

\* A finite map with key k deleted / set.
MapDel(f, k) == [x \in (DOMAIN f) \ {k} |-> f[x]]
MapPut(f, k, v) == [x \in (DOMAIN f) \cup {k} |-> IF x = k THEN v ELSE f[x]]
EmptyMap == [x \in {} |-> 0]

\* Elements of a sequence.
Range(s) == {s[i] : i \in 1..Len(s)}

\* State{Repos: []string{}, Processed: make(map[string][]int)}
EmptyState == [Repos |-> <<>>, Processed |-> EmptyMap]

\* Contents of a file of the base directory: absent, a complete JSON
\* document of a State, or a document cut short (down to nothing) by a
\* truncation or an unfinished write.
NoFile == [kind |-> "missing", repos |-> <<>>, processed |-> EmptyMap]
PartialFile == [kind |-> "partial", repos |-> <<>>, processed |-> EmptyMap]

\* No saveState call is being run step by step.
SaveIdle == [pc |-> "idle", prev |-> NoFile, op |-> "", repo |-> ""]

\* json.MarshalIndent(m.state, "", "  ")
MarshalState(s) == [kind |-> "json", repos |-> s.Repos, processed |-> s.Processed]

\* loadState: a missing or unparseable file yields the empty state.
loadState(file) ==
    IF file.kind = "json"
    THEN [Repos |-> file.repos, Processed |-> file.processed]
    ELSE EmptyState

VARIABLES
    \* Manager (watcher.go:108-119)
    watchers,      \* map[string]context.CancelFunc: repo -> scope of its poller
    repoWatchers,  \* map[string]*Watcher: the repos that have a Watcher
    knownIssues,   \* map[string]Issue: key -> issue number
    issueCtxs,     \* map[string]context.CancelFunc: key -> scope of its worker
    state,         \* State: [Repos, Processed]
    \* base directory
    stateFile,     \* <baseDir>/state.json
    tmpFile,       \* <baseDir>/state.json.tmp
    savePc,        \* a saveState call that is run step by step: where it is,
                   \* state.json as it found it, the operation that made it
    workdirs,      \* keys whose worktree <baseDir>/<repo>/<n>/<name> exists
    commits,       \* keys whose branch agent/issue-<n> has commits beyond origin/main
    logFiles,      \* key -> number of lines of <baseDir>/<repo>/<n>/lurker.log
    \* cancellation scopes and goroutines
    ctxCount,      \* scopes created so far; scope ids are 1..ctxCount
    cancelled,     \* ids of the scopes whose cancel() has been called
    pollers,       \* scope id -> goroutine running Watcher.Run
    workers,       \* scope id -> goroutine running Watcher.processIssue
    launching,     \* StartIssue calls between m.mu.Unlock() and their return
    eventCh,       \* chan Event: the buffered events, oldest first
    \* Model (model.go:60-99)
    issues,        \* []watcher.TrackedIssue
    logs,          \* map[string][]string: key -> number of log lines
    repoErrors,    \* map[string]string: repos with a poll error shown
    ptySessions,   \* map[string]*ptySession: key -> [done]
    execMsgs,      \* interactiveClaudeDoneMsg values not yet delivered to Update
    \* bookkeeping
    phase,         \* "new" (NewManager returned), "running" (Start called), "stopped"
    ret,           \* what the last Manager operation returned to its caller
    restarts,      \* process restarts so far
    faultsLeft,    \* failures of the environment still to come
    ticksLeft,     \* poll-timer ticks still to come
    keysLeft,      \* commands of the operator still to come
    agentLines,    \* lines of output that the agent prints in one run
    \* library functions run on their own
    storeRun,      \* a save and load of the state file: the State, the bytes, the result
    httpRun,       \* a Client.do call: the clock, the rateLimiter, the attempts, the result
    ptyRun,        \* a RunCommand call: the pty output left to read, the scan buffer, the result
    busRun,        \* the event channel on its own: what was sent, is buffered, was handled
    cloneRun,      \* cloneRepo calls of one repository: the directories, each call's place
    attachRun,     \* a shell session with its drain loop and the operator's attaches
    cmdRun         \* a shell session with its drain loop and RunCommand calls

mgrVars == <<watchers, repoWatchers, knownIssues, issueCtxs, state>>
fileVars == <<stateFile, tmpFile>>
fsVars == <<workdirs, commits, logFiles>>
goVars == <<ctxCount, cancelled, pollers, workers, launching>>
tuiVars == <<issues, logs, repoErrors, ptySessions, execMsgs>>
libVars == <<storeRun, httpRun, ptyRun, busRun, cloneRun, attachRun, cmdRun, agentLines>>
auxVars == <<phase, restarts, faultsLeft, ticksLeft, libVars>>
vars == <<mgrVars, fileVars, savePc, fsVars, goVars, eventCh, tuiVars, auxVars,
          keysLeft, ret>>

\* The Manager's operations below constrain mgrVars, fileVars, goVars and ret;
\* the action that makes the call says what happens to the rest.

\* No library function is being run on its own.
RunIdle == [pc |-> "idle"]
StoreIdle == storeRun = RunIdle
HttpIdle == httpRun = RunIdle
PtyIdle == ptyRun = RunIdle
BusIdle == busRun = RunIdle
CloneIdle == cloneRun = RunIdle
AttachIdle == attachRun = RunIdle
CmdIdle == cmdRun = RunIdle
LibIdle ==
    StoreIdle /\ HttpIdle /\ PtyIdle /\ BusIdle /\ CloneIdle /\ AttachIdle /\ CmdIdle

\* What a library function run on its own leaves alone: the program.
programVars == <<mgrVars, fileVars, savePc, fsVars, goVars, eventCh, tuiVars, phase,
                 restarts, faultsLeft, ticksLeft, keysLeft, ret, agentLines>>
storeFrame == <<programVars, httpRun, ptyRun, busRun, cloneRun, attachRun, cmdRun>>
clientFrame == <<programVars, storeRun, ptyRun, busRun, cloneRun, attachRun, cmdRun>>
ptyFrame == <<programVars, storeRun, httpRun, busRun, cloneRun, attachRun, cmdRun>>
busFrame == <<programVars, storeRun, httpRun, ptyRun, cloneRun, attachRun, cmdRun>>
cloneFrame == <<programVars, storeRun, httpRun, ptyRun, busRun, attachRun, cmdRun>>
attachFrame == <<programVars, storeRun, httpRun, ptyRun, busRun, cloneRun, cmdRun>>
cmdFrame == <<programVars, storeRun, httpRun, ptyRun, busRun, cloneRun, attachRun>>

\* ------------------------------------------------------------ the Manager

\* The goroutine of startWatcher's `go w.Run(ctx, m.eventCh)`: it is about to
\* run its first poll.  polled and open say whether its latest
\* FetchOpenIssues succeeded and which issues it returned.
NewPoller(repo) ==
    [repo |-> repo, pc |-> "poll", todo |-> <<>>, found |-> 0, polled |-> FALSE, open |-> {}]

\* startWatcher on the fields it touches, g = [watchers, repoWatchers,
\* pollers, ctxCount]: a fresh scope whose cancel func replaces watchers[repo],
\* a fresh Watcher in repoWatchers[repo], and a goroutine running Run.
startWatcher(g, repo) ==
    LET id == g.ctxCount + 1 IN
    [watchers |-> MapPut(g.watchers, repo, id),
     repoWatchers |-> g.repoWatchers \cup {repo},
     pollers |-> MapPut(g.pollers, id, NewPoller(repo)),
     ctxCount |-> id]

\* Start's loop: startWatcher for every entry of m.state.Repos, in order.
RECURSIVE startAll(_, _)
startAll(g, repos) ==
    IF repos = <<>> THEN g
    ELSE startAll(startWatcher(g, Head(repos)), Tail(repos))

Goroutines == [watchers |-> watchers, repoWatchers |-> repoWatchers,
               pollers |-> pollers, ctxCount |-> ctxCount]

\* What one saveState call does to the two files and what it returns, by how
\* far it gets: os.WriteFile cannot open the temp file, os.WriteFile fails
\* after truncating it, os.Rename fails, or all succeed.
SaveOutcomes == {"ok", "openFail", "writeFail", "renameFail"}

saveState(s, outcome) ==
    CASE outcome = "ok" ->
           [stateFile |-> MarshalState(s), tmpFile |-> NoFile, err |-> FALSE]
      [] outcome = "openFail" ->
           [stateFile |-> stateFile, tmpFile |-> tmpFile, err |-> TRUE]
      [] outcome = "writeFail" ->
           [stateFile |-> stateFile, tmpFile |-> PartialFile, err |-> TRUE]
      [] OTHER ->
           [stateFile |-> stateFile, tmpFile |-> MarshalState(s), err |-> TRUE]

\* NewManager with the known issues of the process before: nothing is
\* discovered again.
NewManagerKeepsKnown ==
    /\ state' = loadState(stateFile)
    /\ watchers' = EmptyMap
    /\ repoWatchers' = {}
    /\ knownIssues' = knownIssues
    /\ issueCtxs' = EmptyMap
    /\ pollers' = EmptyMap
    /\ workers' = EmptyMap
    /\ launching' = {}
    /\ eventCh' = <<>>
    /\ ret' = [op |-> "NewManager", err |-> FALSE]
    /\ UNCHANGED <<fileVars, ctxCount, cancelled>>

\* NewManager: every map empty, a new channel, the state loaded from
\* state.json.  The process is new: no goroutine of an earlier one survives.
NewManager ==
    /\ state' = loadState(stateFile)
    /\ watchers' = EmptyMap
    /\ repoWatchers' = {}
    /\ knownIssues' = EmptyMap
    /\ issueCtxs' = EmptyMap
    /\ pollers' = EmptyMap
    /\ workers' = EmptyMap
    /\ launching' = {}
    /\ eventCh' = <<>>
    /\ ret' = [op |-> "NewManager", err |-> FALSE]
    /\ UNCHANGED <<fileVars, ctxCount, cancelled>>

\* Manager.Start
Start ==
    /\ ctxCount + Len(state.Repos) <= MaxCtx
    /\ LET g == startAll(Goroutines, state.Repos) IN
         /\ watchers' = g.watchers
         /\ repoWatchers' = g.repoWatchers
         /\ pollers' = g.pollers
         /\ ctxCount' = g.ctxCount
    /\ ret' = [op |-> "Start", err |-> FALSE]
    /\ UNCHANGED <<knownIssues, issueCtxs, state, fileVars, cancelled, workers, launching>>

\* The slice after append(m.state.Repos, repo).
AppendRepo(repos, repo) == Append(repos, repo)

\* Manager.AddRepo(repo); mkdirOk: os.MkdirAll of the repo's workdir root
\* succeeds; outcome: how far saveState gets.
AddRepo(repo, mkdirOk, outcome) ==
    IF repo \in DOMAIN watchers
    THEN /\ ret' = [op |-> "AddRepo", err |-> FALSE]
         /\ UNCHANGED <<mgrVars, fileVars, goVars>>
    ELSE IF ~mkdirOk
    THEN /\ ret' = [op |-> "AddRepo", err |-> TRUE]
         /\ UNCHANGED <<mgrVars, fileVars, goVars>>
    ELSE LET s == [state EXCEPT !.Repos = AppendRepo(state.Repos, repo)]
             sv == saveState(s, outcome)
             g == startWatcher(Goroutines, repo)
         IN /\ Len(state.Repos) < MaxRepoList
            /\ state' = s
            /\ stateFile' = sv.stateFile
            /\ tmpFile' = sv.tmpFile
            /\ ret' = [op |-> "AddRepo", err |-> sv.err]
            /\ IF sv.err
               THEN UNCHANGED <<watchers, repoWatchers, pollers, ctxCount>>
               ELSE /\ ctxCount < MaxCtx
                    /\ watchers' = g.watchers
                    /\ repoWatchers' = g.repoWatchers
                    /\ pollers' = g.pollers
                    /\ ctxCount' = g.ctxCount
            /\ UNCHANGED <<knownIssues, issueCtxs, cancelled, workers, launching>>

\* m.state.Repos with its first entry equal to repo removed (the loop breaks
\* after the first match).
RECURSIVE RemoveFirst(_, _)
RemoveFirst(repos, repo) ==
    IF repos = <<>> THEN <<>>
    ELSE IF Head(repos) = repo THEN Tail(repos)
    ELSE <<Head(repos)>> \o RemoveFirst(Tail(repos), repo)

\* The keys of a map that RemoveRepo(repo) matches.
RepoKeys(ks, repo) == {k \in ks : HasPrefix(k, RepoPrefix(repo))}

\* m.state after RemoveRepo(repo)'s edits.
RemovedRepoState(repo) ==
    [Repos |-> RemoveFirst(state.Repos, repo),
     Processed |-> MapDel(state.Processed, repo)]

\* Manager.RemoveRepo(repo) up to its saveState call.
RemoveRepoInMemory(repo) ==
    LET ks == RepoKeys(DOMAIN issueCtxs, repo) IN
    /\ cancelled' = cancelled
                      \cup (IF repo \in DOMAIN watchers THEN {watchers[repo]} ELSE {})
                      \cup {issueCtxs[k] : k \in ks}
    /\ watchers' = MapDel(watchers, repo)
    /\ repoWatchers' = repoWatchers \ {repo}
    /\ issueCtxs' = [k \in (DOMAIN issueCtxs) \ ks |-> issueCtxs[k]]
    /\ knownIssues' = [k \in (DOMAIN knownIssues) \ RepoKeys(DOMAIN knownIssues, repo)
                         |-> knownIssues[k]]
    /\ state' = RemovedRepoState(repo)
    /\ UNCHANGED <<ctxCount, pollers, workers, launching>>

\* Manager.RemoveRepo(repo)
RemoveRepo(repo, outcome) ==
    LET sv == saveState(RemovedRepoState(repo), outcome) IN
    /\ RemoveRepoInMemory(repo)
    /\ stateFile' = sv.stateFile
    /\ tmpFile' = sv.tmpFile
    /\ ret' = [op |-> "RemoveRepo", err |-> sv.err]

\* m.state.Processed after append(m.state.Processed[repo], num).
AppendProcessed(processed, repo, num) ==
    MapPut(processed, repo,
           Append(IF repo \in DOMAIN processed THEN processed[repo] ELSE <<>>, num))

\* Manager.MarkProcessed(repo, num): it returns nothing.
MarkProcessed(repo, num, outcome) ==
    LET s == [state EXCEPT !.Processed = AppendProcessed(state.Processed, repo, num)]
        sv == saveState(s, outcome)
    IN /\ repo \in DOMAIN state.Processed => Len(state.Processed[repo]) < MaxMarks
       /\ state' = s
       /\ stateFile' = sv.stateFile
       /\ tmpFile' = sv.tmpFile
       /\ ret' = [op |-> "MarkProcessed", err |-> FALSE]
       /\ UNCHANGED <<watchers, repoWatchers, knownIssues, issueCtxs, goVars>>

\* Manager.StoreIssue(repo, issue)
StoreIssue(repo, num) ==
    /\ knownIssues' = MapPut(knownIssues, IssueKey(repo, num), num)

\* Manager.IsKnown(key)
IsKnown(key) == key \in DOMAIN knownIssues

\* The scope StartIssue or StopIssue cancels: the one registered for the key.
PriorScope(key) == IF key \in DOMAIN issueCtxs THEN {issueCtxs[key]} ELSE {}

\* StartIssue up to m.mu.Unlock() without `if cancel, ok := m.issueCtxs[key]; ok
\* { cancel() }`: the registered scope is replaced, not cancelled.
StartIssueLockedKeepsPrior(repo, num) ==
    LET key == IssueKey(repo, num) IN
    IF key \notin DOMAIN knownIssues
    THEN UNCHANGED <<mgrVars, goVars>>
    ELSE /\ ctxCount < MaxCtx
         /\ ctxCount' = ctxCount + 1
         /\ UNCHANGED cancelled
         /\ issueCtxs' = MapPut(issueCtxs, key, ctxCount + 1)
         /\ launching' = launching \cup
               {[ctx |-> ctxCount + 1, repo |-> repo, num |-> knownIssues[key],
                 w |-> repo \in repoWatchers]}
         /\ UNCHANGED <<watchers, repoWatchers, knownIssues, state, pollers, workers>>

\* Manager.StartIssue(repo, num) up to m.mu.Unlock(): an unknown issue
\* returns; otherwise the registered scope of the key is cancelled, a fresh
\* one is registered and the repo's Watcher is looked up.
StartIssueLocked(repo, num) ==
    LET key == IssueKey(repo, num) IN
    IF key \notin DOMAIN knownIssues
    THEN UNCHANGED <<mgrVars, goVars>>
    ELSE /\ ctxCount < MaxCtx
         /\ ctxCount' = ctxCount + 1
         /\ cancelled' = cancelled \cup PriorScope(key)
         /\ issueCtxs' = MapPut(issueCtxs, key, ctxCount + 1)
         /\ launching' = launching \cup
               {[ctx |-> ctxCount + 1, repo |-> repo, num |-> knownIssues[key],
                 w |-> repo \in repoWatchers]}
         /\ UNCHANGED <<watchers, repoWatchers, knownIssues, state, pollers, workers>>

\* The goroutine of `go w.processIssue(ctx, m.eventCh, issue)`.
NewWorker(repo, num) ==
    [repo |-> repo, num |-> num, pc |-> "react", logged |-> 0, sent |-> "none",
     late |-> FALSE]

\* Manager.StartIssue after m.mu.Unlock(): without a Watcher the new scope is
\* cancelled, otherwise the worker goroutine is started.
StartIssueLaunch(c) ==
    /\ c \in launching
    /\ launching' = launching \ {c}
    /\ IF c.w
       THEN /\ workers' = MapPut(workers, c.ctx, NewWorker(c.repo, c.num))
            /\ UNCHANGED cancelled
       ELSE /\ cancelled' = cancelled \cup {c.ctx}
            /\ UNCHANGED workers
    /\ UNCHANGED <<mgrVars, ctxCount, pollers>>

\* Manager.StartIssue(repo, num) as one step, for a caller that no other
\* caller of the Manager runs beside (the Model's Update loop): what the
\* goroutines do between m.mu.Unlock() and the go statement neither reads nor
\* writes anything the rest of the call does.
StartIssue(repo, num) ==
    LET key == IssueKey(repo, num)
        id == ctxCount + 1
    IN
    IF key \notin DOMAIN knownIssues
    THEN UNCHANGED <<mgrVars, goVars>>
    ELSE /\ ctxCount < MaxCtx
         /\ ctxCount' = id
         /\ issueCtxs' = MapPut(issueCtxs, key, id)
         /\ IF repo \in repoWatchers
            THEN /\ cancelled' = cancelled \cup PriorScope(key)
                 /\ workers' = MapPut(workers, id, NewWorker(repo, knownIssues[key]))
            ELSE /\ cancelled' = cancelled \cup PriorScope(key) \cup {id}
                 /\ UNCHANGED workers
         /\ UNCHANGED <<watchers, repoWatchers, knownIssues, state, pollers, launching>>

\* Manager.StopIssue(repo, num)
StopIssue(repo, num) ==
    LET key == IssueKey(repo, num) IN
    /\ cancelled' = cancelled \cup PriorScope(key)
    /\ issueCtxs' = MapDel(issueCtxs, key)
    /\ UNCHANGED <<watchers, repoWatchers, knownIssues, state,
                   ctxCount, pollers, workers, launching>>

\* Manager.Stop.  What becomes of the goroutines is the caller's: a process
\* that exits takes them along.
Stop ==
    /\ cancelled' = cancelled \cup {watchers[r] : r \in DOMAIN watchers}
                              \cup {issueCtxs[k] : k \in DOMAIN issueCtxs}
    /\ watchers' = EmptyMap
    /\ issueCtxs' = EmptyMap
    /\ UNCHANGED <<repoWatchers, knownIssues, state>>

\* ------------------------------------------------------- the event channel

Event(kind, repo, num) ==
    [Kind |-> kind, Repo |-> repo, IssueNum |-> num, Text |-> "", Count |-> 0]

\* The text of an error event, by what failed: "Poll failed: ...",
\* "React failed: ...", "Clone failed: ..." and the agent's err.Error().
\* Count is the number that the text of a PollDone event reports.
ErrorTexts == {"Poll failed", "React failed", "Clone failed", "claude exited"}
ErrorEvent(repo, num, text) == [Event("Error", repo, num) EXCEPT !.Text = text]

\* ch <- ev: the sender waits while the buffer is full.
Send(ev) ==
    /\ Len(eventCh) < ChanCap
    /\ Len(eventCh) < MaxQueue
    /\ eventCh' = Append(eventCh, ev)

\* A fallible call of a goroutine, made with result ok: a failure is counted.
Outcome(ok) ==
    IF ok THEN UNCHANGED faultsLeft
    ELSE faultsLeft > 0 /\ faultsLeft' = faultsLeft - 1

\* ------------------------------------------------------------- the pollers

\* What FetchOpenIssues may return on success: the open issues, each once.
RECURSIVE Ascending(_)
Ascending(S) ==
    IF S = {} THEN <<>>
    ELSE LET m == CHOOSE x \in S : \A y \in S : x <= y
         IN <<m>> \o Ascending(S \ {m})

FetchResults == {Ascending(S) : S \in SUBSET IssueNums}

SetPoller(id, p) == pollers' = [pollers EXCEPT ![id] = p]
PollerAt(id, pc) == id \in DOMAIN pollers /\ pollers[id].pc = pc

\* Where poll's loop over the fetched issues continues.
LoopPc(todo) == IF todo = <<>> THEN "emitPollDone" ELSE "check"

\* What a step of a poller or of a worker leaves alone besides what it names.
goroutineFrame == <<watchers, repoWatchers, issueCtxs, state, fileVars, savePc,
                    ctxCount, cancelled, launching, tuiVars, phase, restarts, libVars,
                    keysLeft, ret>>

\* poll: w.emit(eventCh, EventPollStart, 0, ...), then FetchOpenIssues, which
\* fails or returns the open issues.
PollBegin(id) ==
    /\ PollerAt(id, "poll")
    /\ Send(Event("PollStart", pollers[id].repo, 0))
    /\ \/ /\ Outcome(FALSE)
          /\ SetPoller(id, [pollers[id] EXCEPT !.pc = "emitPollErr", !.polled = FALSE,
                                               !.open = {}])
       \/ /\ Outcome(TRUE)
          /\ \E res \in FetchResults :
               SetPoller(id, [pollers[id] EXCEPT !.pc = LoopPc(res), !.todo = res,
                                                 !.found = 0, !.polled = TRUE,
                                                 !.open = Range(res)])
    /\ UNCHANGED <<goroutineFrame, knownIssues, fsVars, workers, ticksLeft>>

\* poll: an issue the Manager already knows is skipped.
PollCheck(id) ==
    /\ PollerAt(id, "check")
    /\ LET p == pollers[id] IN
         IF IsKnown(IssueKey(p.repo, Head(p.todo)))
         THEN SetPoller(id, [p EXCEPT !.todo = Tail(p.todo), !.pc = LoopPc(Tail(p.todo))])
         ELSE SetPoller(id, [p EXCEPT !.pc = "store"])
    /\ UNCHANGED <<goroutineFrame, knownIssues, fsVars, workers, eventCh, faultsLeft, ticksLeft>>

\* poll: w.manager.StoreIssue(w.cfg.Repo, iss)
PollStore(id) ==
    /\ PollerAt(id, "store")
    /\ StoreIssue(pollers[id].repo, Head(pollers[id].todo))
    /\ SetPoller(id, [pollers[id] EXCEPT !.pc = "emitFound"])
    /\ UNCHANGED <<goroutineFrame, fsVars, workers, eventCh, faultsLeft, ticksLeft>>

\* poll: eventCh <- Event{Kind: EventIssueFound, ...}; newCount++
PollEmitFound(id) ==
    /\ PollerAt(id, "emitFound")
    /\ LET p == pollers[id] IN
         /\ Send(Event("IssueFound", p.repo, Head(p.todo)))
         /\ SetPoller(id, [p EXCEPT !.todo = Tail(p.todo), !.pc = LoopPc(Tail(p.todo)),
                                    !.found = p.found + 1])
    /\ UNCHANGED <<goroutineFrame, knownIssues, fsVars, workers, faultsLeft, ticksLeft>>

\* poll: w.emit(eventCh, EventPollDone, 0, ...)
PollEmitDoneCountsOpen(id) ==
    /\ PollerAt(id, "emitPollDone")
    /\ Send([Event("PollDone", pollers[id].repo, 0)
                EXCEPT !.Count = Cardinality(pollers[id].open)])
    /\ SetPoller(id, [pollers[id] EXCEPT !.pc = "wait", !.found = 0])
    /\ UNCHANGED <<goroutineFrame, knownIssues, fsVars, workers, faultsLeft, ticksLeft>>
PollEmitDone(id) ==
    /\ PollerAt(id, "emitPollDone")
    /\ Send([Event("PollDone", pollers[id].repo, 0) EXCEPT !.Count = pollers[id].found])
    /\ SetPoller(id, [pollers[id] EXCEPT !.pc = "wait", !.found = 0])
    /\ UNCHANGED <<goroutineFrame, knownIssues, fsVars, workers, faultsLeft, ticksLeft>>

\* poll: w.emit(eventCh, EventError, 0, "Poll failed: ...")
PollEmitErr(id) ==
    /\ PollerAt(id, "emitPollErr")
    /\ Send(ErrorEvent(pollers[id].repo, 0, "Poll failed"))
    /\ SetPoller(id, [pollers[id] EXCEPT !.pc = "wait"])
    /\ UNCHANGED <<goroutineFrame, knownIssues, fsVars, workers, faultsLeft, ticksLeft>>

\* Run: `case <-ticker.C`.  select chooses among its ready cases, so a tick
\* that is ready together with ctx.Done() may be the one taken.
PollTick(id) ==
    /\ PollerAt(id, "wait")
    /\ ticksLeft > 0
    /\ ticksLeft' = ticksLeft - 1
    /\ SetPoller(id, [pollers[id] EXCEPT !.pc = "poll"])
    /\ UNCHANGED <<goroutineFrame, knownIssues, fsVars, workers, eventCh, faultsLeft>>

\* Run: `case <-ctx.Done(): return`
PollExit(id) ==
    /\ PollerAt(id, "wait")
    /\ id \in cancelled
    /\ pollers' = MapDel(pollers, id)
    /\ UNCHANGED <<goroutineFrame, knownIssues, fsVars, workers, eventCh, faultsLeft, ticksLeft>>

\* ------------------------------------------------------------- the workers

SetWorker(id, w) == workers' = [workers EXCEPT ![id] = w]
WorkerAt(id, pc) == id \in DOMAIN workers /\ workers[id].pc = pc
WorkerGoto(id, pc) == SetWorker(id, [workers[id] EXCEPT !.pc = pc])
WorkerReturn(id) == workers' = MapDel(workers, id)
WorkerKey(id) == IssueKey(workers[id].repo, workers[id].num)

\* The text of the event that a worker emits at pc `at`.
EmitText(at) ==
    CASE at = "emitReactErr" -> "React failed"
      [] at = "emitCloneErr" -> "Clone failed"
      [] at = "emitError" -> "claude exited"
      [] OTHER -> ""

\* w.emit(eventCh, kind, num, ...) by worker id, which continues at pc.
WorkerEmit(id, at, kind, pc) ==
    /\ WorkerAt(id, at)
    /\ Send([Event(kind, workers[id].repo, workers[id].num) EXCEPT !.Text = EmitText(at)])
    /\ IF pc = "return" THEN WorkerReturn(id)
       ELSE SetWorker(id, [workers[id] EXCEPT !.pc = pc, !.sent = kind,
                                              !.late = @ \/ id \in cancelled])
    /\ UNCHANGED <<goroutineFrame, knownIssues, fsVars, pollers, faultsLeft, ticksLeft>>

\* processIssue: AddReaction, which does not run under the scope; a failure
\* under a cancelled scope returns.
WorkerReact(id) ==
    /\ WorkerAt(id, "react")
    /\ \/ /\ Outcome(TRUE)
          /\ WorkerGoto(id, "emitReacted")
       \/ /\ Outcome(FALSE)
          /\ IF id \in cancelled THEN WorkerReturn(id) ELSE WorkerGoto(id, "emitReactErr")
    /\ UNCHANGED <<goroutineFrame, knownIssues, fsVars, pollers, eventCh, ticksLeft>>

WorkerEmitReacted(id) == WorkerEmit(id, "emitReacted", "Reacted", "chk1")
WorkerEmitReactErrAborts(id) == WorkerEmit(id, "emitReactErr", "Error", "return")
WorkerEmitReactErr(id) == WorkerEmit(id, "emitReactErr", "Error", "chk1")

\* processIssue: `if ctx.Err() != nil { return }` between two stages.
WorkerCheck(id, at, pc) ==
    /\ WorkerAt(id, at)
    /\ IF id \in cancelled THEN WorkerReturn(id) ELSE WorkerGoto(id, pc)
    /\ UNCHANGED <<goroutineFrame, knownIssues, fsVars, pollers, eventCh, faultsLeft, ticksLeft>>

WorkerCheckReact(id) == WorkerCheck(id, "chk1", "emitCloneStart")
WorkerEmitCloneStart(id) == WorkerEmit(id, "emitCloneStart", "CloneStart", "clone")

\* processIssue: cloneRepo.  Its commands run under the scope: once it is
\* cancelled they fail and the worker returns; a failed or interrupted run
\* may have left the worktree behind.
WorkerCloneReportsCancel(id) ==
    /\ WorkerAt(id, "clone")
    /\ \/ /\ id \notin cancelled
          /\ Outcome(TRUE)
          /\ WorkerGoto(id, "emitCloneDone")
          /\ workdirs' = workdirs \cup {WorkerKey(id)}
       \/ /\ Outcome(id \in cancelled)
          /\ WorkerGoto(id, "emitCloneErr")
          /\ \E made \in BOOLEAN :
               workdirs' = IF made THEN workdirs \cup {WorkerKey(id)} ELSE workdirs
    /\ UNCHANGED <<goroutineFrame, knownIssues, commits, logFiles, pollers, eventCh, ticksLeft>>
WorkerClone(id) ==
    /\ WorkerAt(id, "clone")
    /\ \/ /\ id \notin cancelled
          /\ Outcome(TRUE)
          /\ WorkerGoto(id, "emitCloneDone")
          /\ workdirs' = workdirs \cup {WorkerKey(id)}
       \/ /\ IF id \in cancelled
             THEN Outcome(TRUE) /\ WorkerReturn(id)
             ELSE Outcome(FALSE) /\ WorkerGoto(id, "emitCloneErr")
          /\ \E made \in BOOLEAN :
               workdirs' = IF made THEN workdirs \cup {WorkerKey(id)} ELSE workdirs
    /\ UNCHANGED <<goroutineFrame, knownIssues, commits, logFiles, pollers, eventCh, ticksLeft>>

WorkerEmitCloneDone(id) == WorkerEmit(id, "emitCloneDone", "CloneDone", "chk2")
WorkerEmitCloneErr(id) == WorkerEmit(id, "emitCloneErr", "Error", "return")
WorkerCheckClone(id) == WorkerCheck(id, "chk2", "emitClaudeStart")
WorkerEmitClaudeStart(id) == WorkerEmit(id, "emitClaudeStart", "ClaudeStart", "runClaude")

\* RunClaude: cmd.Start().  Under a cancelled scope Start fails and the worker
\* returns; otherwise the agent runs, or it cannot be started.
WorkerClaudeStart(id) ==
    /\ WorkerAt(id, "runClaude")
    /\ IF id \in cancelled
       THEN Outcome(TRUE) /\ WorkerReturn(id)
       ELSE \/ Outcome(TRUE) /\ WorkerGoto(id, "claude")
            \/ Outcome(FALSE) /\ WorkerGoto(id, "emitClaudeDoneFail")
    /\ UNCHANGED <<goroutineFrame, knownIssues, fsVars, pollers, eventCh, ticksLeft>>

\* RunClaude: logFn for one line of the agent's output.
WorkerClaudeLog(id) ==
    /\ WorkerAt(id, "claude")
    /\ workers[id].logged < agentLines
    /\ Send(Event("ClaudeLog", workers[id].repo, workers[id].num))
    /\ SetWorker(id, [workers[id] EXCEPT !.logged = @ + 1, !.sent = "ClaudeLog",
                                         !.late = @ \/ id \in cancelled])
    /\ UNCHANGED <<goroutineFrame, knownIssues, fsVars, pollers, faultsLeft, ticksLeft>>

\* processIssue: RunClaude returns.  The agent may have committed to the
\* issue's branch; under a cancelled scope it was killed and the worker returns.
WorkerClaudeExit(id) ==
    /\ WorkerAt(id, "claude")
    /\ \/ /\ id \notin cancelled
          /\ Outcome(TRUE)
          /\ WorkerGoto(id, "emitClaudeDoneOk")
       \/ IF id \in cancelled
          THEN Outcome(TRUE) /\ WorkerReturn(id)
          ELSE Outcome(FALSE) /\ WorkerGoto(id, "emitClaudeDoneFail")
    /\ \E made \in BOOLEAN :
         commits' = IF made THEN commits \cup {WorkerKey(id)} ELSE commits
    /\ UNCHANGED <<goroutineFrame, knownIssues, workdirs, logFiles, pollers, eventCh, ticksLeft>>

WorkerEmitClaudeDone(id) == WorkerEmit(id, "emitClaudeDoneOk", "ClaudeDone", "emitReady")
WorkerEmitReady(id) == WorkerEmit(id, "emitReady", "Ready", "return")
WorkerEmitClaudeFailed(id) == WorkerEmit(id, "emitClaudeDoneFail", "ClaudeDone", "emitError")
WorkerEmitErrorGoesOn(id) == WorkerEmit(id, "emitError", "Error", "emitReady")
WorkerEmitError(id) == WorkerEmit(id, "emitError", "Error", "return")

\* ------------------------------------------------------------- the Model

\* maxLogLines
maxLogLines == 500

ActiveStatuses == {"reacted", "cloning", "cloneReady", "claudeRunning"}

\* isActive(status)
isActive(status) == status \in ActiveStatuses

\* <baseDir>/<repo>/<n>/<name>, the worktree of an issue.
WorkdirPath(repo, num) == "/" \o repo \o "/" \o ToString(num)

\* DeriveIssueStatus(baseDir, repo, num): the status and the workdir.
DeriveIssueStatusNoProbe(repo, num) ==
    IF IssueKey(repo, num) \notin workdirs THEN [Status |-> "pending", Workdir |-> ""]
    ELSE [Status |-> "cloneReady", Workdir |-> WorkdirPath(repo, num)]
DeriveIssueStatus(repo, num) ==
    LET key == IssueKey(repo, num) IN
    IF key \notin workdirs THEN [Status |-> "pending", Workdir |-> ""]
    ELSE IF key \in commits THEN [Status |-> "ready", Workdir |-> WorkdirPath(repo, num)]
    ELSE [Status |-> "cloneReady", Workdir |-> WorkdirPath(repo, num)]

\* Indexes of the tracked issues of (repo, num), in slice order.
Matches(iss, repo, num) ==
    {i \in 1..Len(iss) : iss[i].Repo = repo /\ iss[i].Number = num}

\* The first tracked issue of (repo, num): the one the Model's lookups stop at.
FirstMatch(iss, repo, num) ==
    CHOOSE i \in Matches(iss, repo, num) : \A j \in Matches(iss, repo, num) : i <= j

\* findIssueStatus(repo, num)
findIssueStatus(iss, repo, num) ==
    IF Matches(iss, repo, num) = {} THEN "pending"
    ELSE iss[FirstMatch(iss, repo, num)].Status

\* updateIssueStatus(repo, num, status)
updateIssueStatus(iss, repo, num, status) ==
    IF Matches(iss, repo, num) = {} THEN iss
    ELSE [iss EXCEPT ![FirstMatch(iss, repo, num)].Status = status]

\* setWorkdir(repo, num, dir)
setWorkdir(iss, repo, num, dir) ==
    IF Matches(iss, repo, num) = {} THEN iss
    ELSE [iss EXCEPT ![FirstMatch(iss, repo, num)].Workdir = dir]

\* setError(repo, num, errText)
setError(iss, repo, num, errText) ==
    IF Matches(iss, repo, num) = {} THEN iss
    ELSE [iss EXCEPT ![FirstMatch(iss, repo, num)].Error = errText]

LogLen(lg, key) == IF key \in DOMAIN lg THEN lg[key] ELSE 0

\* appendLog(key, line), n times: the lines in memory, cut to the last
\* maxLogLines, and the lines persistLogLine appends to the log file.
appendLog(lg, key, n) ==
    MapPut(lg, key, IF LogLen(lg, key) + n > maxLogLines THEN maxLogLines
                    ELSE LogLen(lg, key) + n)
persistLogLine(files, key, n) == MapPut(files, key, LogLen(files, key) + n)

\* loadPersistedLogs(repo, num): nil without a file, else its last lines.
loadPersistedLogs(files, key) ==
    IF key \notin DOMAIN files THEN 0
    ELSE IF files[key] > maxLogLines THEN maxLogLines ELSE files[key]

\* handleEvent(ev) on [issues, logs, repoErrors, logFiles].
handleEvent(m, ev) ==
    LET key == IssueKey(ev.Repo, ev.IssueNum)
        logged(mm, n) == [mm EXCEPT !.logs = appendLog(mm.logs, key, n),
                                    !.logFiles = persistLogLine(mm.logFiles, key, n)]
        status(mm, st) == [mm EXCEPT !.issues =
                               updateIssueStatus(mm.issues, ev.Repo, ev.IssueNum, st)]
        d == DeriveIssueStatus(ev.Repo, ev.IssueNum)
    IN
    IF /\ ev.IssueNum > 0
       /\ ev.Kind # "IssueFound"
       /\ findIssueStatus(m.issues, ev.Repo, ev.IssueNum) = "paused"
    THEN m
    ELSE CASE ev.Kind = "PollStart" -> m
           [] ev.Kind = "IssueFound" ->
                [m EXCEPT !.issues = Append(m.issues,
                              [Repo |-> ev.Repo, Number |-> ev.IssueNum,
                               Status |-> d.Status, Workdir |-> d.Workdir, Error |-> ""]),
                          !.logs = MapPut(m.logs, key, loadPersistedLogs(m.logFiles, key))]
           [] ev.Kind = "Reacted" -> logged(status(m, "reacted"), 1)
           [] ev.Kind = "CloneStart" -> logged(status(m, "cloning"), 1)
           [] ev.Kind = "CloneDone" ->
                logged([status(m, "cloneReady") EXCEPT !.issues =
                           setWorkdir(@, ev.Repo, ev.IssueNum,
                                      WorkdirPath(ev.Repo, ev.IssueNum))], 1)
           [] ev.Kind = "ClaudeStart" -> logged(status(m, "claudeRunning"), 1)
           [] ev.Kind = "ClaudeLog" -> logged(m, 1)
           [] ev.Kind = "ClaudeDone" -> logged(m, 1)
           [] ev.Kind = "Ready" -> logged(status(m, "ready"), 1)
           [] ev.Kind = "Error" ->
                IF ev.IssueNum = 0
                THEN [m EXCEPT !.repoErrors = @ \cup {ev.Repo}]
                ELSE logged([status(m, "failed") EXCEPT !.issues =
                                setError(@, ev.Repo, ev.IssueNum, ev.Text)], 1)
           [] OTHER -> [m EXCEPT !.repoErrors = @ \ {ev.Repo}]

ModelFields == [issues |-> issues, logs |-> logs, repoErrors |-> repoErrors,
                logFiles |-> logFiles]

\* The program runs the Model's Update loop.
ModelIdle == phase = "running"

\* What no step of the Model touches.
modelFrame == <<savePc, workdirs, eventCh, phase, restarts, ticksLeft, libVars>>

\* Update(eventMsg) without `delete(m.repoErrors, ev.Repo)`: an error once
\* shown stays.
HandleEventKeepsRepoError ==
    /\ ModelIdle
    /\ eventCh # <<>>
    /\ eventCh' = Tail(eventCh)
    /\ LET m == handleEvent(ModelFields, Head(eventCh)) IN
         /\ issues' = m.issues
         /\ logs' = m.logs
         /\ repoErrors' = repoErrors \cup m.repoErrors
         /\ logFiles' = m.logFiles
    /\ UNCHANGED <<mgrVars, fileVars, savePc, workdirs, commits, goVars, ptySessions,
                   execMsgs, auxVars, keysLeft, ret>>

\* Update(eventMsg): the oldest event of the channel is handled.
HandleEvent ==
    /\ ModelIdle
    /\ eventCh # <<>>
    /\ eventCh' = Tail(eventCh)
    /\ LET m == handleEvent(ModelFields, Head(eventCh)) IN
         /\ issues' = m.issues
         /\ logs' = m.logs
         /\ repoErrors' = m.repoErrors
         /\ logFiles' = m.logFiles
    /\ UNCHANGED <<mgrVars, fileVars, savePc, workdirs, commits, goVars, ptySessions,
                   execMsgs, auxVars, keysLeft, ret>>

\* selectedIssue(): the rows of visibleItems() are the watched repos
\* (m.manager.Repos()) and, under an expanded repo, its tracked issues; the
\* cursor reaches every row.
Selectable(i) == i \in 1..Len(issues) /\ issues[i].Repo \in Range(state.Repos)

\* A session that ensurePtySession reuses: present and not done.
HasLiveSession(key) == key \in DOMAIN ptySessions /\ ~ptySessions[key].done

\* m.ptySessions after ensurePtySession(key, dir); ptyOk: newPtySession succeeds.
ensurePtySession(key, ptyOk) ==
    IF HasLiveSession(key) \/ ~ptyOk THEN ptySessions
    ELSE MapPut(ptySessions, key, [done |-> FALSE])

\* The operator gives one more command.
KeyPressed == keysLeft > 0 /\ keysLeft' = keysLeft - 1

\* A call that is made only when needed and then has result ok: a call not
\* made has no result to choose.
OutcomeIf(needed, ok) == IF needed THEN Outcome(ok) ELSE ok /\ UNCHANGED faultsLeft

\* toggleIssueProcessing on the selected issue i.  pending, paused, failed:
\* ensure the shell session, StartIssue, reacted.  active: StopIssue, paused.
\* ready: nothing.
toggleIssueProcessing(i, ptyOk) ==
    LET iss == issues[i]
        key == IssueKey(iss.Repo, iss.Number)
        starts == iss.Status \in {"pending", "paused", "failed"}
        lines == IF HasLiveSession(key) THEN 1 ELSE 2
    IN
    /\ ModelIdle
    /\ KeyPressed
    /\ Selectable(i)
    /\ OutcomeIf(starts /\ ~HasLiveSession(key), ptyOk)
    /\ IF starts
       THEN /\ ptySessions' = ensurePtySession(key, ptyOk)
            /\ StartIssue(iss.Repo, iss.Number)
            /\ issues' = [issues EXCEPT ![i].Status = "reacted",
                                         ![i].Error = IF iss.Status = "failed" THEN "" ELSE @]
            /\ logs' = appendLog(logs, key, lines)
            /\ logFiles' = persistLogLine(logFiles, key, lines)
       ELSE IF isActive(iss.Status)
       THEN /\ StopIssue(iss.Repo, iss.Number)
            /\ issues' = [issues EXCEPT ![i].Status = "paused"]
            /\ logs' = appendLog(logs, key, 1)
            /\ logFiles' = persistLogLine(logFiles, key, 1)
            /\ UNCHANGED ptySessions
       ELSE UNCHANGED <<mgrVars, goVars, issues, logs, logFiles, ptySessions>>
    /\ UNCHANGED <<modelFrame, fileVars, commits, repoErrors, execMsgs, ret>>

\* handleKey "enter" in the add-repo input: m.manager.AddRepo(repo), its
\* error dropped.
KeyAddRepo(repo) ==
    /\ ModelIdle
    /\ KeyPressed
    /\ \E mkdirOk \in BOOLEAN, outcome \in SaveOutcomes :
         /\ mkdirOk \/ outcome = "ok"
         /\ OutcomeIf(repo \notin DOMAIN watchers, mkdirOk /\ outcome = "ok")
         /\ AddRepo(repo, mkdirOk, outcome)
    /\ UNCHANGED <<modelFrame, commits, logFiles, tuiVars>>

\* removeSelectedRepoConfirmed for the repo of the selected row: RemoveRepo,
\* its error dropped; the repo's tracked issues, their logs and their shell
\* sessions (SIGHUP, then deleted) go.
removeSelectedRepoConfirmed(repo) ==
    LET gone == {i \in 1..Len(issues) : issues[i].Repo = repo}
        goneKeys == {IssueKey(issues[i].Repo, issues[i].Number) : i \in gone}
        keep == SelectSeq(issues, LAMBDA t : t.Repo # repo)
    IN
    /\ ModelIdle
    /\ KeyPressed
    /\ repo \in Range(state.Repos)
    /\ \E outcome \in SaveOutcomes :
         /\ Outcome(outcome = "ok")
         /\ RemoveRepo(repo, outcome)
    /\ issues' = keep
    /\ logs' = [k \in (DOMAIN logs) \ goneKeys |-> logs[k]]
    /\ ptySessions' = [k \in (DOMAIN ptySessions) \ goneKeys |-> ptySessions[k]]
    /\ repoErrors' = repoErrors \ {repo}
    /\ UNCHANGED <<modelFrame, commits, logFiles, execMsgs>>

\* takeoverClaudeFor on issue i, which has a workdir; ptyOk: newPtySession
\* succeeds; made: the operator's interactive session commits to the branch.
\* The attach ends with an interactiveClaudeDoneMsg.
takeoverClaudeFor(i, ptyOk, made) ==
    LET iss == issues[i]
        key == IssueKey(iss.Repo, iss.Number)
        stop == isActive(iss.Status)
        attached == HasLiveSession(key) \/ ptyOk
        lines == (IF stop THEN 1 ELSE 0) + (IF attached THEN 0 ELSE 1)
    IN
    /\ ModelIdle
    /\ KeyPressed
    /\ Selectable(i)
    /\ iss.Workdir # ""
    /\ OutcomeIf(~HasLiveSession(key), ptyOk)
    /\ attached \/ ~made
    /\ IF stop THEN StopIssue(iss.Repo, iss.Number) ELSE UNCHANGED <<mgrVars, goVars>>
    /\ logs' = IF lines = 0 THEN logs ELSE appendLog(logs, key, lines)
    /\ logFiles' = IF lines = 0 THEN logFiles ELSE persistLogLine(logFiles, key, lines)
    /\ ptySessions' = ensurePtySession(key, ptyOk)
    /\ execMsgs' = IF attached THEN execMsgs \cup {[repo |-> iss.Repo, num |-> iss.Number]}
                   ELSE execMsgs
    /\ commits' = IF made THEN commits \cup {key} ELSE commits
    /\ UNCHANGED <<modelFrame, fileVars, issues, repoErrors, ret>>

\* handleInteractiveReturn(msg): `git log origin/main..agent/issue-<n>` in
\* the workdir decides between ready and cloneReady.
handleInteractiveReturn(msg) ==
    LET key == IssueKey(msg.repo, msg.num)
        st == IF key \in workdirs /\ key \in commits THEN "ready" ELSE "cloneReady"
    IN
    /\ ModelIdle
    /\ msg \in execMsgs
    /\ execMsgs' = execMsgs \ {msg}
    /\ issues' = updateIssueStatus(issues, msg.repo, msg.num, st)
    /\ logs' = appendLog(logs, key, 1)
    /\ logFiles' = persistLogLine(logFiles, key, 1)
    /\ UNCHANGED <<modelFrame, mgrVars, fileVars, commits, goVars, repoErrors, ptySessions,
                   faultsLeft, keysLeft, ret>>

\* The shell of a session exits: cmd.Wait() returns in startShell's goroutine,
\* which marks the session done.
ShellExit(key) ==
    /\ ModelIdle
    /\ key \in DOMAIN ptySessions
    /\ ~ptySessions[key].done
    /\ ptySessions' = [ptySessions EXCEPT ![key].done = TRUE]
    /\ UNCHANGED <<modelFrame, mgrVars, fileVars, commits, logFiles, goVars, issues, logs,
                   repoErrors, execMsgs, faultsLeft, keysLeft, ret>>

\* main: mgr.Start(), then the program runs the Model.
MainStart ==
    /\ phase = "new"
    /\ phase' = "running"
    /\ Start
    /\ UNCHANGED <<savePc, fsVars, eventCh, tuiVars, restarts, faultsLeft, ticksLeft, keysLeft,
                   libVars>>

\* tea.Quit: main returns through `defer mgr.Stop()` and the process exits.
Quit ==
    /\ ModelIdle
    /\ phase' = "stopped"
    /\ Stop
    /\ pollers' = EmptyMap
    /\ workers' = EmptyMap
    /\ UNCHANGED <<fileVars, savePc, fsVars, ctxCount, launching, eventCh, tuiVars,
                   restarts, faultsLeft, ticksLeft, keysLeft, ret, libVars>>

\* ------------------------------------------------------- the whole program

\* The program is started on an empty base directory: NewManager and NewModel
\* have returned.
ProgramInit ==
    /\ watchers = EmptyMap
    /\ repoWatchers = {}
    /\ knownIssues = EmptyMap
    /\ issueCtxs = EmptyMap
    /\ state = loadState(NoFile)
    /\ stateFile = NoFile
    /\ tmpFile = NoFile
    /\ savePc = SaveIdle
    /\ workdirs = {}
    /\ commits = {}
    /\ logFiles = EmptyMap
    /\ ctxCount = 0
    /\ cancelled = {}
    /\ pollers = EmptyMap
    /\ workers = EmptyMap
    /\ launching = {}
    /\ eventCh = <<>>
    /\ issues = <<>>
    /\ logs = EmptyMap
    /\ repoErrors = {}
    /\ ptySessions = EmptyMap
    /\ execMsgs = {}
    /\ phase = "new"
    /\ ret = [op |-> "NewManager", err |-> FALSE]
    /\ restarts = 0
    /\ faultsLeft = MaxFaults
    /\ ticksLeft = MaxTicks
    /\ keysLeft = MaxKeys
    /\ agentLines = MaxClaudeLogs

Init == ProgramInit /\ LibIdle

CtxIds == 1..MaxCtx

\* A step of a poller goroutine.
PollerStep ==
    \E id \in CtxIds :
        \/ PollBegin(id)
        \/ PollCheck(id)
        \/ PollStore(id)
        \/ PollEmitFound(id)
        \/ PollEmitDone(id)
        \/ PollEmitErr(id)
        \/ PollTick(id)
        \/ PollExit(id)

\* A step of a worker goroutine.
WorkerStep ==
    \E id \in CtxIds :
        \/ WorkerReact(id)
        \/ WorkerEmitReacted(id)
        \/ WorkerEmitReactErr(id)
        \/ WorkerCheckReact(id)
        \/ WorkerEmitCloneStart(id)
        \/ WorkerClone(id)
        \/ WorkerEmitCloneDone(id)
        \/ WorkerEmitCloneErr(id)
        \/ WorkerCheckClone(id)
        \/ WorkerEmitClaudeStart(id)
        \/ WorkerClaudeStart(id)
        \/ WorkerClaudeLog(id)
        \/ WorkerClaudeExit(id)
        \/ WorkerEmitClaudeDone(id)
        \/ WorkerEmitReady(id)
        \/ WorkerEmitClaudeFailed(id)
        \/ WorkerEmitError(id)

\* A key of the operator.
KeyStep ==
    \/ \E i \in 1..Len(issues), ptyOk \in BOOLEAN : toggleIssueProcessing(i, ptyOk)
    \/ \E repo \in RepoIds : KeyAddRepo(repo)
    \/ \E repo \in RepoIds : removeSelectedRepoConfirmed(repo)
    \/ \E i \in 1..Len(issues), ptyOk \in BOOLEAN, made \in BOOLEAN :
           takeoverClaudeFor(i, ptyOk, made)

\* A message handled by the Model's Update, or a key of the operator.
ModelStep ==
    \/ HandleEvent
    \/ KeyStep
    \/ \E msg \in execMsgs : handleInteractiveReturn(msg)
    \/ \E key \in AllKeys : ShellExit(key)

\* The whole program: main, the Model, the pollers and the workers.
Next ==
    \/ MainStart
    \/ ModelStep
    \/ PollerStep
    \/ WorkerStep
    \/ Quit

Spec == Init /\ [][Next]_vars

\* ------------------------------------------------- the Manager's interface

\* What a call of the Manager from outside the program's own loop leaves alone.
apiFrame == <<savePc, fsVars, tuiVars, phase, ticksLeft, keysLeft, libVars>>

\* A caller's AddRepo(repo).
ApiAddRepo(repo) ==
    /\ \E mkdirOk \in BOOLEAN, outcome \in SaveOutcomes :
         /\ mkdirOk \/ outcome = "ok"
         /\ OutcomeIf(repo \notin DOMAIN watchers, mkdirOk /\ outcome = "ok")
         /\ AddRepo(repo, mkdirOk, outcome)
    /\ UNCHANGED <<apiFrame, eventCh, restarts>>

\* A caller's RemoveRepo(repo).
ApiRemoveRepo(repo) ==
    /\ \E outcome \in SaveOutcomes :
         /\ Outcome(outcome = "ok")
         /\ RemoveRepo(repo, outcome)
    /\ UNCHANGED <<apiFrame, eventCh, restarts>>

\* A caller's MarkProcessed(repo, num).
ApiMarkProcessed(repo, num) ==
    /\ \E outcome \in SaveOutcomes :
         /\ Outcome(outcome = "ok")
         /\ MarkProcessed(repo, num, outcome)
    /\ UNCHANGED <<apiFrame, eventCh, restarts>>

\* A poller's StoreIssue(repo, issue).
ApiStoreIssue(repo, num) ==
    /\ StoreIssue(repo, num)
    /\ UNCHANGED <<watchers, repoWatchers, issueCtxs, state, fileVars, goVars, ret>>
    /\ UNCHANGED <<apiFrame, faultsLeft, eventCh, restarts>>

\* A caller's StartIssue(repo, num) up to m.mu.Unlock().
ApiStartIssue(repo, num) ==
    /\ StartIssueLocked(repo, num)
    /\ UNCHANGED <<fileVars, ret, apiFrame, faultsLeft, eventCh, restarts>>

\* The rest of a caller's StartIssue.
ApiStartIssueReturn(c) ==
    /\ StartIssueLaunch(c)
    /\ UNCHANGED <<fileVars, ret, apiFrame, faultsLeft, eventCh, restarts>>

\* A caller's StopIssue(repo, num).
ApiStopIssue(repo, num) ==
    /\ StopIssue(repo, num)
    /\ UNCHANGED <<fileVars, ret, apiFrame, faultsLeft, eventCh, restarts>>

\* A caller's Stop(): the goroutines live on until they see their scope.
ApiStop ==
    /\ Stop
    /\ UNCHANGED <<ctxCount, pollers, workers, launching>>
    /\ UNCHANGED <<fileVars, ret, apiFrame, faultsLeft, eventCh, restarts>>

\* A caller's Start().
ApiStart ==
    /\ Start
    /\ UNCHANGED <<apiFrame, faultsLeft, eventCh, restarts>>

\* The process ends and a new one calls NewManager on the base directory.
ApiRestart ==
    /\ restarts < MaxRestarts
    /\ restarts' = restarts + 1
    /\ NewManager
    /\ UNCHANGED <<apiFrame, faultsLeft>>

\* The Manager's repository list under any caller: NewManager, Start, AddRepo,
\* RemoveRepo, MarkProcessed and Stop in any order.
NextMgr ==
    \/ \E repo \in RepoIds : ApiAddRepo(repo)
    \/ \E repo \in RepoIds : ApiRemoveRepo(repo)
    \/ \E repo \in RepoIds, num \in IssueNums : ApiMarkProcessed(repo, num)
    \/ ApiStop
    \/ ApiStart
    \/ ApiRestart

SpecMgr == Init /\ [][NextMgr]_vars

\* The Manager's issue scopes under any callers: StoreIssue, StartIssue,
\* StopIssue, AddRepo and RemoveRepo in any order, a StartIssue call
\* interleaved with the others between its unlock and its go statement.
NextIssue ==
    \/ \E repo \in RepoIds : ApiAddRepo(repo)
    \/ \E repo \in RepoIds : ApiRemoveRepo(repo)
    \/ \E repo \in RepoIds, num \in IssueNums : ApiStoreIssue(repo, num)
    \/ \E repo \in RepoIds, num \in IssueNums : ApiStartIssue(repo, num)
    \/ \E c \in launching : ApiStartIssueReturn(c)
    \/ \E repo \in RepoIds, num \in IssueNums : ApiStopIssue(repo, num)

SpecIssue == Init /\ [][NextIssue]_vars

\* ------------------------------------------- saveState, one call at a time

\* What a step of a mutating operation leaves alone besides the Manager and
\* the two files.
diskFrame == <<fsVars, eventCh, tuiVars, phase, ticksLeft, keysLeft, libVars>>

\* An operation has edited m.state under the lock and calls saveState.
SaveStart(op, repo) ==
    /\ savePc.pc = "idle"
    /\ savePc' = [pc |-> "create", prev |-> stateFile, op |-> op, repo |-> repo]
    /\ UNCHANGED <<fileVars, ret, restarts, faultsLeft, diskFrame>>

\* AddRepo(repo), past its watchers check and its MkdirAll, up to saveState.
DiskAddRepo(repo) ==
    /\ repo \notin DOMAIN watchers
    /\ Len(state.Repos) < MaxRepoList
    /\ ctxCount < MaxCtx
    /\ state' = [state EXCEPT !.Repos = AppendRepo(state.Repos, repo)]
    /\ SaveStart("AddRepo", repo)
    /\ UNCHANGED <<watchers, repoWatchers, knownIssues, issueCtxs, goVars>>

\* RemoveRepo(repo) up to saveState.
DiskRemoveRepo(repo) ==
    /\ RemoveRepoInMemory(repo)
    /\ SaveStart("RemoveRepo", repo)

\* MarkProcessed(repo, num) up to saveState.
DiskMarkProcessed(repo, num) ==
    /\ repo \in DOMAIN state.Processed => Len(state.Processed[repo]) < MaxMarks
    /\ state' = [state EXCEPT !.Processed = AppendProcessed(state.Processed, repo, num)]
    /\ SaveStart("MarkProcessed", repo)
    /\ UNCHANGED <<watchers, repoWatchers, knownIssues, issueCtxs, goVars>>

\* saveState returns err to the operation, which returns: AddRepo starts the
\* watcher after a successful save, MarkProcessed drops the error.
SaveReturn(err) ==
    /\ savePc' = SaveIdle
    /\ ret' = [op |-> savePc.op, err |-> err /\ savePc.op # "MarkProcessed"]
    /\ IF ~err /\ savePc.op = "AddRepo"
       THEN LET g == startWatcher(Goroutines, savePc.repo) IN
              /\ watchers' = g.watchers
              /\ repoWatchers' = g.repoWatchers
              /\ pollers' = g.pollers
              /\ ctxCount' = g.ctxCount
       ELSE UNCHANGED <<watchers, repoWatchers, pollers, ctxCount>>
    /\ UNCHANGED <<knownIssues, issueCtxs, state, cancelled, workers, launching,
                   restarts, diskFrame>>

\* saveState writing state.json itself: os.WriteFile(m.statePath, ...) creates
\* or truncates the state file.
SaveCreateInPlace ==
    /\ savePc.pc = "create"
    /\ \/ /\ Outcome(TRUE)
          /\ stateFile' = PartialFile
          /\ savePc' = [savePc EXCEPT !.pc = "write"]
          /\ UNCHANGED <<mgrVars, tmpFile, goVars, ret, restarts, diskFrame>>
       \/ /\ Outcome(FALSE)
          /\ SaveReturn(TRUE)
          /\ UNCHANGED fileVars

\* os.WriteFile(tmp, ...): the temp file is created or truncated, or cannot be.
SaveCreate ==
    /\ savePc.pc = "create"
    /\ \/ /\ Outcome(TRUE)
          /\ tmpFile' = PartialFile
          /\ savePc' = [savePc EXCEPT !.pc = "write"]
          /\ UNCHANGED <<mgrVars, stateFile, goVars, ret, restarts, diskFrame>>
       \/ /\ Outcome(FALSE)
          /\ SaveReturn(TRUE)
          /\ UNCHANGED fileVars

\* os.WriteFile(tmp, ...): the document is written and the file closed, or
\* the write stops short.
SaveWrite ==
    /\ savePc.pc = "write"
    /\ \/ /\ Outcome(TRUE)
          /\ tmpFile' = MarshalState(state)
          /\ savePc' = [savePc EXCEPT !.pc = "rename"]
          /\ UNCHANGED <<mgrVars, stateFile, goVars, ret, restarts, diskFrame>>
       \/ /\ Outcome(FALSE)
          /\ SaveReturn(TRUE)
          /\ UNCHANGED fileVars

\* os.Rename(tmp, m.statePath): the temp file replaces state.json in one
\* step, or nothing changes.
SaveRename ==
    /\ savePc.pc = "rename"
    /\ \/ /\ Outcome(TRUE)
          /\ stateFile' = tmpFile
          /\ tmpFile' = NoFile
          /\ SaveReturn(FALSE)
       \/ /\ Outcome(FALSE)
          /\ SaveReturn(TRUE)
          /\ UNCHANGED fileVars

\* The process dies wherever it is; the files stay as they are and the next
\* process calls NewManager on them.
Crash ==
    /\ restarts < MaxRestarts
    /\ restarts' = restarts + 1
    /\ NewManager
    /\ savePc' = SaveIdle
    /\ UNCHANGED <<faultsLeft, fsVars, tuiVars, phase, ticksLeft, keysLeft, libVars>>

\* The Manager's mutating operations with their saveState calls run step by
\* step, and a crash at any step.
NextDisk ==
    \/ \E repo \in RepoIds : DiskAddRepo(repo)
    \/ \E repo \in RepoIds : DiskRemoveRepo(repo)
    \/ \E repo \in RepoIds, num \in IssueNums : DiskMarkProcessed(repo, num)
    \/ SaveCreate
    \/ SaveWrite
    \/ SaveRename
    \/ Crash

SpecDisk == Init /\ [][NextDisk]_vars

\* ------------------------------------------------------------------ claims

\* The workers of an issue whose scope has not been cancelled.
LiveWorkers(key) ==
    {id \in DOMAIN workers : WorkerKey(id) = key /\ id \notin cancelled}

\* C1: for every issue at most one worker has a scope that is not cancelled,
\* whatever the interleaving of StartIssue, StopIssue and RemoveRepo: a worker,
\* or a StartIssue call about to launch one, whose scope is not cancelled holds
\* the scope registered for its issue, because StartIssue cancelled the scope
\* registered before it.
C1_OneLiveWorkerPerIssue ==
    /\ \A key \in AllKeys : Cardinality(LiveWorkers(key)) <= 1
    /\ \A id \in DOMAIN workers :
         id \notin cancelled =>
           /\ WorkerKey(id) \in DOMAIN issueCtxs
           /\ issueCtxs[WorkerKey(id)] = id
    /\ \A c \in launching :
         c.ctx \notin cancelled =>
           /\ IssueKey(c.repo, c.num) \in DOMAIN issueCtxs
           /\ issueCtxs[IssueKey(c.repo, c.num)] = c.ctx
           /\ LiveWorkers(IssueKey(c.repo, c.num)) = {}

\* C1 witness: an issue was started while its worker was live: two workers
\* of the issue exist, the earlier one cancelled, the later one not.
C1_Witness ==
    \E a \in DOMAIN workers, b \in DOMAIN workers :
        /\ a < b
        /\ WorkerKey(a) = WorkerKey(b)
        /\ a \in cancelled
        /\ b \notin cancelled

\* C8: the watched list never holds a repository twice.
C8_ListHasNoDuplicate ==
    \A i \in 1..Len(state.Repos), j \in 1..Len(state.Repos) :
        i # j => state.Repos[i] # state.Repos[j]

\* The outcomes of saveState in which the durable write fails.
SaveFailures == SaveOutcomes \ {"ok"}

\* C9: when the durable write fails in AddRepo, RemoveRepo or MarkProcessed,
\* the call reports the failure and the repository list, the processed map,
\* the known-set and the pollers are as they were before the call.
C9_FailedSaveRollsBack ==
    [][\A repo \in RepoIds, num \in IssueNums, outcome \in SaveFailures :
         (\/ repo \notin DOMAIN watchers /\ AddRepo(repo, TRUE, outcome)
          \/ RemoveRepo(repo, outcome)
          \/ MarkProcessed(repo, num, outcome))
         => /\ ret'.err
            /\ UNCHANGED <<state, knownIssues, watchers, pollers>>]_vars

\* C10: state.json is replaced atomically: at every point of a saveState call,
\* and so after a crash at that point, state.json is absent or a complete
\* document, it is the document the call found or the document of the state
\* the call saves, and loadState of it returns one of those two states.
C10_StateFileOldOrNew ==
    /\ stateFile.kind # "partial"
    /\ savePc.pc # "idle" =>
         /\ stateFile \in {savePc.prev, MarshalState(state)}
         /\ loadState(stateFile) \in {loadState(savePc.prev), state}

\* C10 witness: the process died in the middle of writing the temp file (no
\* write has failed, yet the temp file is cut short) and the next process
\* loaded the complete document an earlier call had saved.
C10_Witness ==
    /\ restarts > 0
    /\ faultsLeft = MaxFaults
    /\ tmpFile.kind = "partial"
    /\ stateFile.kind = "json"
    /\ state = loadState(stateFile)
    /\ state.Repos # <<>>

\* A step in which the operator gave a command.
OperatorStep == keysLeft' < keysLeft

\* A step in which the Model handled the event ev of the channel.
Delivered(ev) == eventCh # <<>> /\ ev = Head(eventCh) /\ eventCh' = Tail(eventCh)

\* A step in which the Model handled the return of a takeover.
TakeoverReturned == execMsgs' # execMsgs /\ execMsgs' \subseteq execMsgs

\* The status a worker event sets, and the status it follows in the order of
\* the worker's stages.
StageEdges ==
    {<<"Reacted", "reacted", "reacted">>,
     <<"CloneStart", "reacted", "cloning">>,
     <<"CloneDone", "cloning", "cloneReady">>,
     <<"ClaudeStart", "cloneReady", "claudeRunning">>,
     <<"Ready", "claudeRunning", "ready">>}

\* The change of a tracked issue's status from a to b in this step is an
\* edge of the issue state machine.
StatusEdge(t, a, b) ==
    \/ /\ OperatorStep
       /\ \/ a \in {"pending", "paused", "failed"} /\ b = "reacted"
          \/ a \in ActiveStatuses /\ b = "paused"
    \/ /\ TakeoverReturned
       /\ b \in {"ready", "cloneReady"}
    \/ \E ev \in Range(eventCh) :
         /\ Delivered(ev)
         /\ ev.Repo = t.Repo
         /\ ev.IssueNum = t.Number
         /\ \/ <<ev.Kind, a, b>> \in StageEdges
            \/ ev.Kind = "Error" /\ b = "failed"

\* C3: every change of a tracked issue's status follows an edge of the issue
\* state machine: an operator start, resume or retry to reacted, an operator
\* pause of an active issue, a worker event that moves the issue one stage on
\* in the order reacted, cloning, cloneReady, claudeRunning, ready, a worker
\* error to failed, or a takeover return to ready or cloneReady.
C3_StatusFollowsEdges ==
    [][Len(issues') >= Len(issues) =>
         \A i \in 1..Len(issues) :
            issues'[i].Status # issues[i].Status =>
              StatusEdge(issues[i], issues[i].Status, issues'[i].Status)]_vars

\* C5: each (repository, issue number) pair appears in at most one tracked
\* issue.
C5_TrackedIssueUnique ==
    \A i \in 1..Len(issues), j \in 1..Len(issues) :
        issues[i].Repo = issues[j].Repo /\ issues[i].Number = issues[j].Number
          => i = j

\* C6: while a repository is not watched and has goroutines left (RemoveRepo
\* has returned and the repository has not been added again), no event of the
\* repository is placed on the channel and the known-set holds no issue of it.
C6_RemovedRepoIsSilent ==
    [][\A repo \in RepoIds :
         (repo \notin DOMAIN watchers /\ repo \notin DOMAIN watchers')
           => /\ Len(eventCh') > Len(eventCh) => eventCh'[Len(eventCh')].Repo # repo
              /\ RepoKeys(DOMAIN knownIssues', repo) = {}]_vars

\* The issue keys of every repository other than repo.
OtherKeys(repo) == AllKeys \ RepoKeys(AllKeys, repo)

\* A map cut down to the keys in ks.
Restrict(f, ks) == [k \in (DOMAIN f) \cap ks |-> f[k]]

\* The tracked issues of the repositories other than repo, in order.
OtherIssues(iss, repo) == SelectSeq(iss, LAMBDA t : t.Repo # repo)

\* C7: a RemoveRepo(R) whose save succeeds, made by the presentation's
\* remove command, affects exactly R: R's poller scope and the registered
\* worker scopes of R's issues are cancelled and unregistered, R's known
\* issues are deleted, R is no longer in the watched list or the processed
\* map, the saved document is that state, R's tracked issues and shell
\* sessions are gone, and what belongs to any other repository is unchanged.
C7_RemoveRepoAffectsExactlyRepo ==
    [][\A repo \in RepoIds :
         (OperatorStep /\ repo \in Range(state.Repos) /\ RemoveRepo(repo, "ok"))
           => /\ repo \notin DOMAIN watchers'
              /\ repo \in DOMAIN watchers => watchers[repo] \in cancelled'
              /\ \A k \in RepoKeys(DOMAIN issueCtxs, repo) : issueCtxs[k] \in cancelled'
              /\ RepoKeys(DOMAIN issueCtxs', repo) = {}
              /\ RepoKeys(DOMAIN knownIssues', repo) = {}
              /\ repo \notin Range(state'.Repos)
              /\ repo \notin DOMAIN state'.Processed
              /\ loadState(stateFile') = state'
              /\ \A i \in 1..Len(issues') : issues'[i].Repo # repo
              /\ RepoKeys(DOMAIN ptySessions', repo) = {}
              /\ \A other \in RepoIds \ {repo} :
                   /\ other \in DOMAIN watchers <=> other \in DOMAIN watchers'
                   /\ other \in DOMAIN watchers => watchers'[other] = watchers[other]
                   /\ other \in DOMAIN state.Processed <=> other \in DOMAIN state'.Processed
                   /\ other \in DOMAIN state.Processed
                        => state'.Processed[other] = state.Processed[other]
                   /\ other \in Range(state.Repos) <=> other \in Range(state'.Repos)
              /\ cancelled' \ cancelled \subseteq
                   {watchers[r] : r \in {repo} \cap DOMAIN watchers}
                     \cup {issueCtxs[k] : k \in RepoKeys(DOMAIN issueCtxs, repo)}
              /\ Restrict(issueCtxs', OtherKeys(repo)) = Restrict(issueCtxs, OtherKeys(repo))
              /\ Restrict(knownIssues', OtherKeys(repo)) = Restrict(knownIssues, OtherKeys(repo))
              /\ Restrict(ptySessions', OtherKeys(repo)) = Restrict(ptySessions, OtherKeys(repo))
              /\ OtherIssues(issues', repo) = OtherIssues(issues, repo)]_vars

\* --------------------------------------- the program on a day without faults

\* Operator commands in one behaviour of the program without faults.
MaxKeysQuiet == 5
MaxLinesQuiet == 2

\* The repository the operator works on.
QuietRepo == "o/a"

\* As Init, but no call fails, no ticker fires after the first poll, and the
\* operator gives up to MaxKeysQuiet commands.
InitQuiet ==
    /\ watchers = EmptyMap
    /\ repoWatchers = {}
    /\ knownIssues = EmptyMap
    /\ issueCtxs = EmptyMap
    /\ state = loadState(NoFile)
    /\ stateFile = NoFile
    /\ tmpFile = NoFile
    /\ savePc = SaveIdle
    /\ workdirs = {}
    /\ commits = {}
    /\ logFiles = EmptyMap
    /\ ctxCount = 0
    /\ cancelled = {}
    /\ pollers = EmptyMap
    /\ workers = EmptyMap
    /\ launching = {}
    /\ eventCh = <<>>
    /\ issues = <<>>
    /\ logs = EmptyMap
    /\ repoErrors = {}
    /\ ptySessions = EmptyMap
    /\ execMsgs = {}
    /\ phase = "new"
    /\ ret = [op |-> "NewManager", err |-> FALSE]
    /\ restarts = 0
    /\ faultsLeft = 0
    /\ ticksLeft = 0
    /\ keysLeft = MaxKeysQuiet
    /\ agentLines = MaxLinesQuiet
    /\ LibIdle

\* The steps of the pollers that need neither a failure nor a tick.
PollerStepQuiet ==
    \E id \in CtxIds :
        \/ PollBegin(id)
        \/ PollCheck(id)
        \/ PollStore(id)
        \/ PollEmitFound(id)
        \/ PollEmitDone(id)
        \/ PollExit(id)

\* The steps of the workers that need no failure.
WorkerStepQuiet ==
    \E id \in CtxIds :
        \/ WorkerReact(id)
        \/ WorkerEmitReacted(id)
        \/ WorkerCheckReact(id)
        \/ WorkerEmitCloneStart(id)
        \/ WorkerClone(id)
        \/ WorkerEmitCloneDone(id)
        \/ WorkerCheckClone(id)
        \/ WorkerEmitClaudeStart(id)
        \/ WorkerClaudeStart(id)
        \/ WorkerClaudeLog(id)
        \/ WorkerClaudeExit(id)
        \/ WorkerEmitClaudeDone(id)
        \/ WorkerEmitReady(id)

\* The operator adds and removes the repository and starts and pauses issues.
NextQuiet ==
    \/ MainStart
    \/ HandleEvent
    \/ \E i \in 1..Len(issues) : toggleIssueProcessing(i, TRUE)
    \/ KeyAddRepo(QuietRepo)
    \/ removeSelectedRepoConfirmed(QuietRepo)
    \/ PollerStepQuiet
    \/ WorkerStepQuiet

SpecQuiet == InitQuiet /\ [][NextQuiet]_vars

\* A step of a poller goroutine.
PollerMoved == pollers' # pollers /\ ~OperatorStep /\ phase' = phase

\* No poller step launches a worker or touches a tracked issue, and the
\* Model's handling of a poller's event (IssueFound or a repo-level event)
\* leaves every tracked issue it already holds as it was.
PollLeavesIssuesAlone ==
    /\ PollerMoved => workers' = workers /\ launching' = launching /\ issues' = issues
    /\ \A ev \in Range(eventCh) :
         (Delivered(ev) /\ (ev.IssueNum = 0 \/ ev.Kind = "IssueFound"))
           => \A i \in 1..Len(issues) : issues'[i] = issues[i]

\* A worker appears only in an operator's start, resume or retry of a tracked
\* issue of the worker's (repo, number).
WorkerOnlyByOperatorStart ==
    \A id \in (DOMAIN workers') \ (DOMAIN workers) :
        /\ OperatorStep
        /\ \E i \in 1..Len(issues) :
             /\ issues[i].Repo = workers'[id].repo
             /\ issues[i].Number = workers'[id].num
             /\ issues[i].Status \in {"pending", "paused", "failed"}
             /\ issues'[i].Status = "reacted"

\* A tracked issue leaves pending only by an operator start.
LeavesPendingOnlyByStart ==
    Len(issues') >= Len(issues) =>
      \A i \in 1..Len(issues) :
         (issues[i].Status = "pending" /\ issues'[i].Status # "pending")
           => OperatorStep /\ issues'[i].Status = "reacted"

\* C2: an issue-level event other than IssueFound that is delivered for a
\* tracked issue whose status is paused is dropped: the tracked issue (status,
\* workdir, error) and the log of its key are unchanged by the event, so the
\* status is still paused after it.
C2_PausedDropsEvents ==
    [][\A ev \in Range(eventCh) :
         (Delivered(ev) /\ ev.IssueNum > 0 /\ ev.Kind # "IssueFound")
           => \A i \in 1..Len(issues) :
                (/\ issues[i].Repo = ev.Repo
                 /\ issues[i].Number = ev.IssueNum
                 /\ issues[i].Status = "paused")
                  => /\ Len(issues') = Len(issues)
                     /\ issues'[i] = issues[i]
                     /\ LogLen(logs', IssueKey(ev.Repo, ev.IssueNum))
                          = LogLen(logs, IssueKey(ev.Repo, ev.IssueNum))
                     /\ LogLen(logFiles', IssueKey(ev.Repo, ev.IssueNum))
                          = LogLen(logFiles, IssueKey(ev.Repo, ev.IssueNum))]_vars

\* C4: no poll launches a worker or changes the status of a tracked issue, a
\* worker is started only by an operator's start, resume or retry, and so a
\* tracked issue leaves pending only by an operator start.
C4_OnlyOperatorStarts ==
    [][/\ PollLeavesIssuesAlone
       /\ WorkerOnlyByOperatorStart
       /\ LeavesPendingOnlyByStart]_vars

\* The first two parts of C4 alone.
PollerNeverStarts == [][PollLeavesIssuesAlone /\ WorkerOnlyByOperatorStart]_vars

\* ------------------------------------------- the state file, byte for byte

\* Entries of a slice of a State that is saved and loaded on its own.
MaxStoreLen == 2

\* A Go slice: nil, or its elements (an empty slice is not nil).
NilSlice == [nil |-> TRUE, elems |-> <<>>]
Slice(elems) == [nil |-> FALSE, elems |-> elems]

\* A Go map[string][]int: nil, or its entries.
NilMap == [nil |-> TRUE, m |-> EmptyMap]
GoMap(m) == [nil |-> FALSE, m |-> m]

\* JSON values.
JNull == [t |-> "null"]
JStr(s) == [t |-> "str", s |-> s]
JNum(n) == [t |-> "num", n |-> n]
JArr(a) == [t |-> "arr", a |-> a]
JObj(o) == [t |-> "obj", o |-> o]

\* encoding/json on a []string or []int: a nil slice is null.
MarshalSlice(sl, kind) ==
    IF sl.nil THEN JNull
    ELSE JArr([i \in 1..Len(sl.elems) |->
                 IF kind = "str" THEN JStr(sl.elems[i]) ELSE JNum(sl.elems[i])])

\* json.MarshalIndent(m.state, "", "  "): the document of a State value.
MarshalIndent(s) ==
    JObj([k \in {"repos", "processed"} |->
            IF k = "repos" THEN MarshalSlice(s.Repos, "str")
            ELSE IF s.Processed.nil THEN JNull
            ELSE JObj([r \in DOMAIN s.Processed.m |->
                         MarshalSlice(s.Processed.m[r], "num")])])

\* json.Unmarshal into a []string (want = "str") or a []int (want = "num"):
\* null leaves the slice nil, a null element leaves the zero value, any
\* other kind of value is an UnmarshalTypeError.
UnmarshalSlice(v, want, zero) ==
    IF v.t = "null" THEN [err |-> FALSE, val |-> NilSlice]
    ELSE IF v.t # "arr" THEN [err |-> TRUE, val |-> NilSlice]
    ELSE IF \E i \in 1..Len(v.a) : v.a[i].t \notin {want, "null"}
    THEN [err |-> TRUE, val |-> NilSlice]
    ELSE [err |-> FALSE,
          val |-> Slice([i \in 1..Len(v.a) |->
                           IF v.a[i].t = "null" THEN zero
                           ELSE IF want = "str" THEN v.a[i].s ELSE v.a[i].n])]

\* json.Unmarshal into a map[string][]int.
UnmarshalMap(v) ==
    IF v.t = "null" THEN [err |-> FALSE, val |-> NilMap]
    ELSE IF v.t # "obj" THEN [err |-> TRUE, val |-> NilMap]
    ELSE IF \E r \in DOMAIN v.o : UnmarshalSlice(v.o[r], "num", 0).err
    THEN [err |-> TRUE, val |-> NilMap]
    ELSE [err |-> FALSE,
          val |-> GoMap([r \in DOMAIN v.o |-> UnmarshalSlice(v.o[r], "num", 0).val])]

\* `var s State`
ZeroState == [Repos |-> NilSlice, Processed |-> NilMap]

\* json.Unmarshal(data, &s) for a syntactically valid document v: a field
\* the document lacks keeps its zero value.
Unmarshal(v) ==
    IF v.t = "null" THEN [err |-> FALSE, val |-> ZeroState]
    ELSE IF v.t # "obj" THEN [err |-> TRUE, val |-> ZeroState]
    ELSE LET field(k) == IF k \in DOMAIN v.o THEN v.o[k] ELSE JNull
             repos == UnmarshalSlice(field("repos"), "str", "")
             processed == UnmarshalMap(field("processed"))
         IN [err |-> repos.err \/ processed.err,
             val |-> [Repos |-> repos.val, Processed |-> processed.val]]

\* State{Repos: []string{}, Processed: make(map[string][]int)}
EmptyGoState == [Repos |-> Slice(<<>>), Processed |-> GoMap(EmptyMap)]

\* Bytes of state.json: no file, bytes that are not JSON, or a JSON document.
FileMissing == [t |-> "missing"]
FileGarbage == [t |-> "garbage"]
FileDoc(v) == [t |-> "doc", v |-> v]

\* loadState that keeps what json.Unmarshal decoded before it failed.
loadStateBytesKeepsPartial(data) ==
    IF data.t # "doc" THEN EmptyGoState
    ELSE LET r == Unmarshal(data.v) IN
         IF r.val.Processed.nil
         THEN [r.val EXCEPT !.Processed = GoMap(EmptyMap)]
         ELSE r.val

\* loadState(path) by the bytes at path.
loadStateBytes(data) ==
    IF data.t # "doc" THEN EmptyGoState
    ELSE LET r == Unmarshal(data.v) IN
         IF r.err THEN EmptyGoState
         ELSE IF r.val.Processed.nil
         THEN [r.val EXCEPT !.Processed = GoMap(EmptyMap)]
         ELSE r.val

\* The slices with up to MaxStoreLen elements of E.
StoreSlices(E) ==
    {NilSlice} \cup {Slice(q) : q \in UNION {[1..n -> E] : n \in 0..MaxStoreLen}}

\* The values a State variable may hold.
StoreStates ==
    [Repos : StoreSlices(RepoIds),
     Processed : {NilMap} \cup
                 {GoMap(f) : f \in UNION {[D -> StoreSlices(IssueNums)] :
                                            D \in SUBSET RepoIds}}]

\* Bytes found at the path that no saveState wrote: none, not JSON, and
\* documents of another shape than a State's.
StrayFiles ==
    {FileMissing, FileGarbage,
     FileDoc(JNull),
     FileDoc(JArr(<<>>)),
     FileDoc(JStr("o/a")),
     FileDoc(JObj(EmptyMap)),
     FileDoc(JObj([k \in {"repos"} |-> JStr("o/a")])),
     FileDoc(JObj([k \in {"repos"} |-> JArr(<<JNum(1)>>)])),
     FileDoc(JObj([k \in {"repos"} |-> JArr(<<JStr("o/a")>>)])),
     FileDoc(JObj([k \in {"processed"} |-> JArr(<<>>)])),
     FileDoc(JObj([k \in {"processed"} |->
                     JObj([r \in {"o/a"} |-> JArr(<<JStr("1")>>)])]))}

\* A State value in memory and some bytes at the path.
InitStore ==
    /\ ProgramInit
    /\ HttpIdle
    /\ PtyIdle
    /\ BusIdle
    /\ CloneIdle /\ AttachIdle /\ CmdIdle
    /\ storeRun \in [pc : {"start"}, s : StoreStates, data : StrayFiles,
                     saved : {FALSE}, out : {ZeroState}]

\* saveState succeeds: the path holds the marshalled State.
StoreSave ==
    /\ storeRun.pc = "start"
    /\ storeRun' = [storeRun EXCEPT !.pc = "saved", !.saved = TRUE,
                                    !.data = FileDoc(MarshalIndent(storeRun.s))]
    /\ UNCHANGED storeFrame

\* loadState(path)
StoreLoad ==
    /\ storeRun.pc \in {"start", "saved"}
    /\ storeRun' = [storeRun EXCEPT !.pc = "loaded",
                                    !.out = loadStateBytes(storeRun.data)]
    /\ UNCHANGED storeFrame

NextStore == StoreSave \/ StoreLoad

SpecStore == InitStore /\ [][NextStore]_vars

\* A State the Manager can hold: its processed map is initialised.
ValidState(s) == ~s.Processed.nil

\* The bytes are missing or cannot be unmarshalled into a State.
Unparseable(data) == data.t # "doc" \/ Unmarshal(data.v).err

\* C11: a valid State that is saved and then loaded comes back as it was;
\* loading a missing or unparseable file gives the empty state, with an empty
\* repository list and an initialised, empty processed map; and whatever is
\* loaded has an initialised processed map.
C11_StoreRoundTrip ==
    storeRun.pc = "loaded" =>
      /\ (storeRun.saved /\ ValidState(storeRun.s)) => storeRun.out = storeRun.s
      /\ (~storeRun.saved /\ Unparseable(storeRun.data)) =>
           /\ storeRun.out = EmptyGoState
           /\ storeRun.out.Repos.elems = <<>>
           /\ ~storeRun.out.Processed.nil
           /\ DOMAIN storeRun.out.Processed.m = {}
      /\ ~storeRun.out.Processed.nil

\* C11 witness: a State with a repository and a processed number, and with a
\* nil slice in it, has been saved and loaded back.
C11_Witness ==
    /\ storeRun.pc = "loaded"
    /\ storeRun.saved
    /\ storeRun.s.Repos.elems # <<>>
    /\ \E r \in DOMAIN storeRun.s.Processed.m :
         storeRun.s.Processed.m[r].elems # <<>>
    /\ \E r \in DOMAIN storeRun.s.Processed.m : storeRun.s.Processed.m[r].nil
    /\ storeRun.out = storeRun.s

\* ------------------------------------------------- the hosting-service client

\* The decimal digits and their values.
Digits == {"0", "1", "2", "3", "4", "5", "6", "7", "8", "9"}
DigitVal(c) ==
    CASE c = "0" -> 0 [] c = "1" -> 1 [] c = "2" -> 2 [] c = "3" -> 3 [] c = "4" -> 4
      [] c = "5" -> 5 [] c = "6" -> 6 [] c = "7" -> 7 [] c = "8" -> 8 [] OTHER -> 9

\* The i-th character of a string.
CharAt(s, i) == SubSeq(s, i, i)

\* The value of the decimal digits s[1..n].
RECURSIVE DecimalValue(_, _)
DecimalValue(s, n) ==
    IF n = 0 THEN 0 ELSE 10 * DecimalValue(s, n - 1) + DigitVal(CharAt(s, n))

\* strconv.Atoi(s) / strconv.ParseInt(s, 10, 64): an optional sign and one or
\* more digits, anything else is an error.
Atoi(s) ==
    LET signed == Len(s) > 0 /\ CharAt(s, 1) \in {"+", "-"}
        body == IF signed THEN SubSeq(s, 2, Len(s)) ELSE s
    IN IF Len(body) = 0 \/ \E i \in 1..Len(body) : CharAt(body, i) \notin Digits
       THEN [err |-> TRUE, n |-> 0]
       ELSE [err |-> FALSE,
             n |-> IF signed /\ CharAt(s, 1) = "-"
                   THEN 0 - DecimalValue(body, Len(body))
                   ELSE DecimalValue(body, Len(body))]

\* newRateLimiter(): remaining -1 (unknown), resetAt the zero time.
newRateLimiter == [remaining |-> -1, resetAt |-> 0]

\* rateLimiter.update(h): each header that is present and parses is taken.
LimiterUpdate(rl, h) ==
    LET rem == Atoi(h.remaining)
        rst == Atoi(h.reset)
    IN [remaining |-> IF h.remaining # "" /\ ~rem.err THEN rem.n ELSE rl.remaining,
        resetAt |-> IF h.reset # "" /\ ~rst.err THEN rst.n ELSE rl.resetAt]

\* The fallback of handleRateLimit: 60 seconds.
rateLimitFallback == 60

\* rateLimiter.handleRateLimit(h) at time now.
handleRateLimit(rl, h, now) ==
    LET ra == Atoi(h.retryAfter)
        rst == Atoi(h.reset)
    IN [remaining |-> 0,
        resetAt |-> IF h.retryAfter # "" /\ ~ra.err THEN now + ra.n
                    ELSE IF h.reset # "" /\ ~rst.err THEN rst.n
                    ELSE now + rateLimitFallback]

\* The safety threshold of wait.
waitThreshold == 10

\* rateLimiter.wait: `remaining >= 0 && remaining < 10 && time.Now().Before(resetAt)`
WaitBlocksUnknown(rl, now) ==
    rl.remaining < waitThreshold /\ now < rl.resetAt
WaitBlocks(rl, now) ==
    rl.remaining >= 0 /\ rl.remaining < waitThreshold /\ now < rl.resetAt

\* rateLimiter.wait: `delay := time.Until(resetAt) + time.Second`
WaitDelay(rl, now) == rl.resetAt - now + 1

\* isRateLimitError(resp)
isRateLimitError(resp) == resp.h.remaining = "0"

\* Client.do: the response is a rate-limit response.
IsRateLimited(resp) ==
    resp.status = 429 \/ (resp.status = 403 /\ isRateLimitError(resp))

\* The last value of `attempt` for which Client.do's loop runs.
maxRetries == 3

\* Client.do: the backoff before attempt number `attempt`, in seconds.
BackoffLinear(attempt) == attempt
Backoff(attempt) == 2 ^ (attempt - 1)

\* The wall clock at the start of a Client.do run, in seconds.
ClockStart == 100

\* Bounds of a Client.do run: how far time.Sleep may overshoot, and how far
\* the clock may move between the two adjacent clock reads of wait.
MaxOvershoot == 1
MaxReadGap == 1

\* Response headers a server may send (rate-limit values are decimal strings).
Header(remaining, reset, retryAfter) ==
    [remaining |-> remaining, reset |-> reset, retryAfter |-> retryAfter]
Headers ==
    {Header("", "", ""), Header("0", "103", ""), Header("5", "103", ""),
     Header("50", "103", ""), Header("", "", "2"), Header("x", "soon", "later")}
Statuses == {200, 403, 404, 429, 500, 503}
Responses == [status : Statuses, h : Headers]

\* The rateLimiter as earlier calls of the same Client may have left it.
Limiters == [remaining : {-1, 0, 9, 10}, resetAt : {0, ClockStart - 1, ClockStart + 2}]

NoWait == [cond |-> FALSE, slept |-> FALSE, entered |-> 0, returned |-> 0,
           remaining |-> -1, resetAt |-> 0]
NoResult == [err |-> FALSE, status |-> 0]

InitClient ==
    /\ ProgramInit
    /\ StoreIdle
    /\ PtyIdle
    /\ BusIdle
    /\ CloneIdle /\ AttachIdle /\ CmdIdle
    /\ httpRun \in [pc : {"start"}, now : {ClockStart}, rl : Limiters, attempt : {0},
                    seen : {<< >>}, sleeps : {<< >>}, w : {NoWait}, lastErr : {FALSE},
                    ret : {NoResult}]

\* Client.do: `for attempt := 0; ...` is entered, no backoff before attempt 0.
DoStart ==
    /\ httpRun.pc = "start"
    /\ httpRun' = [httpRun EXCEPT !.pc = "wait"]
    /\ UNCHANGED clientFrame

\* Client.do: `if attempt > 0 { time.Sleep(1<<uint(attempt-1) * time.Second) }`
DoBackoff ==
    /\ httpRun.pc = "backoff"
    /\ \E over \in 0..MaxOvershoot :
         httpRun' = [httpRun EXCEPT !.pc = "wait",
                                   !.sleeps = Append(@, Backoff(httpRun.attempt)),
                                   !.now = @ + Backoff(httpRun.attempt) + over]
    /\ UNCHANGED clientFrame

\* rateLimiter.wait, the condition: the fields are read under the lock and
\* the clock is read once; without the condition wait returns at once.
LimWaitCheck ==
    /\ httpRun.pc = "wait"
    /\ LET rl == httpRun.rl
           w == [cond |-> WaitBlocks(rl, httpRun.now), slept |-> FALSE,
                 entered |-> httpRun.now, returned |-> httpRun.now,
                 remaining |-> rl.remaining, resetAt |-> rl.resetAt]
       IN IF WaitBlocks(rl, httpRun.now)
          THEN \E gap \in 0..MaxReadGap :
                 httpRun' = [httpRun EXCEPT !.pc = "waitSleep", !.w = w, !.now = @ + gap]
          ELSE httpRun' = [httpRun EXCEPT !.pc = "send", !.w = w]
    /\ UNCHANGED clientFrame

\* rateLimiter.wait, the sleep: the clock is read again for the delay.
LimWaitSleep ==
    /\ httpRun.pc = "waitSleep"
    /\ LET delay == WaitDelay(httpRun.w, httpRun.now)
       IN IF delay > 0
          THEN \E over \in 0..MaxOvershoot :
                 httpRun' = [httpRun EXCEPT !.pc = "send",
                                           !.now = @ + delay + over,
                                           !.w.slept = TRUE,
                                           !.w.returned = httpRun.now + delay + over]
          ELSE httpRun' = [httpRun EXCEPT !.pc = "send", !.w.returned = httpRun.now]
    /\ UNCHANGED clientFrame

\* Client.do: `continue`, then the loop test `attempt <= 3`, then the code
\* after the loop.
DoContinue(run, lastErr, status) ==
    IF run.attempt + 1 <= maxRetries
    THEN [run EXCEPT !.pc = "backoff", !.attempt = @ + 1, !.lastErr = lastErr]
    ELSE [run EXCEPT !.pc = "done", !.attempt = @ + 1, !.lastErr = lastErr,
                     !.ret = IF lastErr THEN [err |-> TRUE, status |-> 0]
                             ELSE [err |-> FALSE, status |-> status]]

\* What one attempt met: the status (0 for a transport failure) and whether
\* the response said that no requests remain.
Seen(status, exhausted) == [status |-> status, exhausted |-> exhausted]

\* Client.do: httpClient.Do fails in transport.
DoSendFails ==
    /\ httpRun.pc = "send"
    /\ httpRun' = DoContinue([httpRun EXCEPT !.seen = Append(@, Seen(0, FALSE))], TRUE, 0)
    /\ UNCHANGED clientFrame

\* Client.do: httpClient.Do returns a response.
DoSendResponds ==
    /\ httpRun.pc = "send"
    /\ \E resp \in Responses :
         LET updated == LimiterUpdate(httpRun.rl, resp.h)
             run == [httpRun EXCEPT !.seen = Append(@, Seen(resp.status, resp.h.remaining = "0"))]
         IN httpRun' =
              IF IsRateLimited(resp)
              THEN DoContinue([run EXCEPT !.rl = handleRateLimit(updated, resp.h, httpRun.now)],
                              FALSE, resp.status)
              ELSE IF resp.status >= 500
              THEN DoContinue([run EXCEPT !.rl = updated], FALSE, resp.status)
              ELSE [run EXCEPT !.pc = "done", !.rl = updated, !.lastErr = FALSE,
                               !.ret = [err |-> FALSE, status |-> resp.status]]
    /\ UNCHANGED clientFrame

NextClient ==
    \/ DoStart
    \/ DoBackoff
    \/ LimWaitCheck
    \/ LimWaitSleep
    \/ DoSendFails
    \/ DoSendResponds

SpecClient == InitClient /\ [][NextClient]_vars

\* The outcomes after which Client.do may try again: a transport failure, a
\* 5xx, or a rate-limit response (a 429, or a 403 saying no requests remain).
MayRetryAfter(o) ==
    o.status = 0 \/ o.status >= 500 \/ o.status = 429 \/ (o.status = 403 /\ o.exhausted)

\* A 2xx, or a 4xx that is not a rate-limit response.
EndsTheCall(o) ==
    \/ o.status >= 200 /\ o.status < 300
    \/ o.status >= 400 /\ o.status < 500 /\ o.status # 429 /\ ~(o.status = 403 /\ o.exhausted)

\* C12: Client.do sends at most 4 attempts; every attempt but the last ended
\* in a transport failure, a 5xx or a rate-limit response; a 2xx or a
\* non-rate-limit 4xx ends the call at once with that response; k <= 3
\* server errors and then a 200 succeed after exactly k+1 attempts, a 404
\* after exactly 1; retry n is preceded by a backoff of 2^(n-1) seconds.
C12_DoRetries ==
    LET seen == httpRun.seen
        n == Len(seen)
        sending == httpRun.pc \in {"wait", "waitSleep", "send"}
    IN httpRun.pc # "idle" =>
       /\ n <= 4
       /\ \A i \in 1..(n - 1) : MayRetryAfter(seen[i])
       /\ \A i \in 1..n : EndsTheCall(seen[i]) =>
            /\ i = n
            /\ httpRun.pc = "done"
            /\ httpRun.ret = [err |-> FALSE, status |-> seen[i].status]
       /\ (n <= 3 /\ \A i \in 1..n : seen[i].status = 500) => httpRun.pc # "done"
       /\ (n >= 1 /\ seen[n].status = 200) =>
            /\ httpRun.pc = "done"
            /\ httpRun.ret = [err |-> FALSE, status |-> 200]
            /\ n = httpRun.attempt + 1
       /\ (n >= 1 /\ seen[1].status = 404) => n = 1 /\ httpRun.pc = "done"
       /\ n >= 1 /\ ~EndsTheCall(seen[n]) /\ n < 4 => httpRun.pc # "done"
       /\ httpRun.pc = "done" => n >= 1
       /\ Len(httpRun.sleeps) = (IF sending THEN n ELSE IF n = 0 THEN 0 ELSE n - 1)
       /\ \A r \in 1..Len(httpRun.sleeps) : httpRun.sleeps[r] = 2 ^ (r - 1)

C12_Witness ==
    /\ httpRun.pc = "done"
    /\ httpRun.seen = <<Seen(500, FALSE), Seen(500, FALSE), Seen(500, FALSE), Seen(200, FALSE)>>
    /\ httpRun.sleeps = <<1, 2, 4>>
    /\ httpRun.ret = [err |-> FALSE, status |-> 200]

\* A call of rateLimiter.wait has returned, and what it did is in httpRun.w.
WaitReturned == httpRun.pc \in {"send", "backoff", "done"}

\* C13: rateLimiter.wait sleeps exactly when remaining is known (not -1),
\* below 10, and the reset time is in the future, and then it returns no
\* earlier than the reset time; otherwise it returns without blocking.
C13_WaitSleepsIffLow ==
    WaitReturned =>
       LET w == httpRun.w
           low == w.remaining >= 0 /\ w.remaining < 10 /\ w.entered < w.resetAt
       IN /\ w.slept <=> low
          /\ low => w.returned >= w.resetAt
          /\ ~low => w.returned = w.entered

C13_Witness ==
    /\ httpRun.pc = "send"
    /\ httpRun.w.slept
    /\ httpRun.w.remaining = 0
    /\ httpRun.w.returned > httpRun.w.entered
    /\ Len(httpRun.seen) = 1

\* ------------------------------------------------------------ the shell session

\* strings.Index(s, sub): the offset of the first occurrence, -1 without one.
Index(s, sub) ==
    LET at == {i \in 0..(Len(s) - Len(sub)) : SubSeq(s, i + 1, i + Len(sub)) = sub}
    IN IF at = {} THEN -1 ELSE CHOOSE i \in at : \A j \in at : i <= j

\* checkMarker: the number of leading decimal digits of rest.
RECURSIVE DigitRun(_, _)
DigitRun(rest, end) ==
    IF end < Len(rest) /\ CharAt(rest, end + 1) \in Digits
    THEN DigitRun(rest, end + 1) ELSE end

\* RunCommand: `marker := fmt.Sprintf("__LURKER_DONE_%s_", id)`
Marker(id) == "__LURKER_DONE_" \o id \o "_"

\* RunCommand: `fullCmd := fmt.Sprintf("%s; echo \"%s$?\"\n", cmd, marker)`
FullCmd(cmd, marker) == cmd \o "; echo \"" \o marker \o "$?\"\n"

NoCode == [found |-> FALSE, code |-> 0]

\* checkMarker's loop over the occurrences of the marker in the scan buffer:
\* the first occurrence followed by a digit gives the code.
RECURSIVE ScanMarker(_, _)
ScanMarker(search, marker) ==
    LET idx == Index(search, marker)
        rest == SubSeq(search, idx + Len(marker) + 1, Len(search))
        end == DigitRun(rest, 0)
    IN IF idx < 0 THEN NoCode
       ELSE IF end > 0 THEN [found |-> TRUE, code |-> DecimalValue(rest, end)]
       ELSE ScanMarker(rest, marker)

\* checkMarker
checkMarker(pendingID, scanBuf) ==
    IF pendingID = "" THEN NoCode ELSE ScanMarker(scanBuf, Marker(pendingID))

\* drain: `buf := make([]byte, 4096)`
drainBufSize == 4096

\* The exit statuses of the commands run, as the shell expands `$?`.
ExitCodes == {0, 1, 12, 127}

\* The id of the pending command and the command line.
CommandId == "7"
CommandLine == "make"

\* What the pty gives back for a command that ends with status n: the echo of
\* the line written (the marker followed by `$?`), the command's own output,
\* the line printed by echo (the marker followed by n), and the next prompt.
CommandOutputs == {"", "ok\n", "__LURKER_DONE_", Marker(CommandId) \o "?\n"}
PtyOutput(n, own) ==
    "$ " \o FullCmd(CommandLine, Marker(CommandId)) \o own
         \o Marker(CommandId) \o ToString(n) \o "\n$ "

NoReturn == [code |-> 0, err |-> FALSE]

InitPty ==
    /\ ProgramInit
    /\ StoreIdle
    /\ HttpIdle
    /\ BusIdle
    /\ CloneIdle /\ AttachIdle /\ CmdIdle
    /\ \E n \in ExitCodes, own \in CommandOutputs :
         ptyRun = [pc |-> "start", n |-> n, out |-> PtyOutput(n, own), pos |-> 0,
                   pendingID |-> "", scanBuf |-> "", resultCh |-> << >>, ret |-> NoReturn]

\* RunCommand up to its select: the pending id, a fresh result channel of
\* capacity 1 and an empty scan buffer are set, and the line is written.
RunCommandStart ==
    /\ ptyRun.pc = "start"
    /\ ptyRun' = [ptyRun EXCEPT !.pc = "waiting", !.pendingID = CommandId,
                               !.scanBuf = "", !.resultCh = << >>]
    /\ UNCHANGED ptyFrame

\* drain: one Read of k bytes; while a command is pending the chunk is
\* appended to the scan buffer and checkMarker runs, sending the code it
\* finds (the send waits for room in the channel).
DrainRead ==
    /\ ptyRun.pc \in {"waiting", "returned"}
    /\ ptyRun.pos < Len(ptyRun.out)
    /\ \E k \in 1..(Len(ptyRun.out) - ptyRun.pos) :
         /\ k <= drainBufSize
         /\ LET chunk == SubSeq(ptyRun.out, ptyRun.pos + 1, ptyRun.pos + k)
                buf == ptyRun.scanBuf \o chunk
                r == checkMarker(ptyRun.pendingID, buf)
            IN IF ptyRun.pendingID = ""
               THEN ptyRun' = [ptyRun EXCEPT !.pos = @ + k]
               ELSE /\ r.found => ptyRun.resultCh = << >>
                    /\ ptyRun' = [ptyRun EXCEPT !.pos = @ + k, !.scanBuf = buf,
                                               !.resultCh = IF r.found THEN <<r.code>> ELSE @]
    /\ UNCHANGED ptyFrame

\* RunCommand: `case code := <-resultCh: return code, nil`, then the deferred
\* reset of the pending state.
RunCommandReturn ==
    /\ ptyRun.pc = "waiting"
    /\ ptyRun.resultCh # << >>
    /\ ptyRun' = [ptyRun EXCEPT !.pc = "returned", !.pendingID = "", !.scanBuf = "",
                               !.resultCh = << >>,
                               !.ret = [code |-> Head(ptyRun.resultCh), err |-> FALSE]]
    /\ UNCHANGED ptyFrame

\* RunCommand: `case <-ctx.Done(): ... return -1, ctx.Err()`, then the
\* deferred reset.
RunCommandCancelled ==
    /\ ptyRun.pc = "waiting"
    /\ ptyRun' = [ptyRun EXCEPT !.pc = "returned", !.pendingID = "", !.scanBuf = "",
                               !.resultCh = << >>,
                               !.ret = [code |-> -1, err |-> TRUE]]
    /\ UNCHANGED ptyFrame

NextPty ==
    \/ RunCommandStart
    \/ DrainRead
    \/ RunCommandReturn
    \/ RunCommandCancelled

SpecPty == InitPty /\ [][NextPty]_vars

\* C14: however the pty output is split into read chunks, a RunCommand that
\* returns a code returns exactly the exit status N that follows the marker.
C14_ReturnsExitStatus ==
    (ptyRun.pc = "returned" /\ ~ptyRun.ret.err) => ptyRun.ret.code = ptyRun.n

\* The marker of the echoed command line, followed by `$?`, is never taken
\* for the result: a returned code is a prefix of the digits of N.
EchoIsSkipped ==
    (ptyRun.pc = "returned" /\ ~ptyRun.ret.err) =>
        \E k \in 1..Len(ToString(ptyRun.n)) :
            ptyRun.ret.code = DecimalValue(ToString(ptyRun.n), k)

\* ------------------------------------------------- the events of one worker

\* The kinds of event a worker emits.
WorkerKinds == {"Reacted", "CloneStart", "CloneDone", "ClaudeStart", "ClaudeLog",
                "ClaudeDone", "Ready", "Error"}

\* Worker id puts an event of the kind on the channel in this step; the kind
\* of its previous event is workers[id].sent.
WorkerEmits(id, kind) ==
    /\ id \in DOMAIN workers
    /\ Len(eventCh') = Len(eventCh) + 1
    /\ id \in DOMAIN workers' => workers'[id] # workers[id]
    /\ LET ev == eventCh'[Len(eventCh')]
       IN  /\ ev.Text \in ErrorTexts \cup {""}
           /\ eventCh' = Append(eventCh, [Event(kind, workers[id].repo, workers[id].num)
                                            EXCEPT !.Text = ev.Text])

\* reacted? -> cloneStart -> cloneDone -> claudeStart -> {claudeLog} ->
\* claudeDone -> ready, as the pairs of one event and the next.
ChainNext ==
    {<<"none", "Reacted">>, <<"none", "CloneStart">>, <<"Reacted", "CloneStart">>,
     <<"CloneStart", "CloneDone">>, <<"CloneDone", "ClaudeStart">>,
     <<"ClaudeStart", "ClaudeLog">>, <<"ClaudeStart", "ClaudeDone">>,
     <<"ClaudeLog", "ClaudeLog">>, <<"ClaudeLog", "ClaudeDone">>,
     <<"ClaudeDone", "Ready">>}

\* An event of the chain in its place, or an error event after any event of
\* the chain.
InChainOrError(sent, kind) ==
    <<sent, kind>> \in ChainNext \/ (kind = "Error" /\ sent # "Error")

\* C15 (as stated): the events of one worker run are a prefix of the chain,
\* an error event may come at any point and is then the worker's last event.
C15_ErrorIsLastEvent ==
    [][\A id \in CtxIds, kind \in WorkerKinds :
          WorkerEmits(id, kind) => InChainOrError(workers[id].sent, kind)]_vars

\* C15 (amended): the events of one worker run are a prefix of the chain in
\* which the error event of a failed reaction may stand in the place of
\* reacted; any other error event is the worker's last event.
C15_WorkerEventOrder ==
    [][\A id \in CtxIds, kind \in WorkerKinds :
          WorkerEmits(id, kind) =>
             /\ \/ InChainOrError(workers[id].sent, kind)
                \/ workers[id].sent = "Error" /\ kind = "CloneStart"
             /\ (kind = "Error" /\ id \in DOMAIN workers') => workers[id].sent = "none"
             /\ (kind = "Ready") => id \notin DOMAIN workers']_vars

\* A worker whose reaction failed has emitted the error and goes on to clone.
C15_Witness ==
    \E id \in DOMAIN workers :
        workers[id].sent = "Error" /\ workers[id].pc = "emitCloneStart"

\* ------------------------------------------------------------ the event bus

\* The producers of a run of the bus on its own, and how many events each
\* emits: one fills the channel and has more to send, the other sends one.
Producers == {"poller", "worker"}
MaxBurst == ChanCap + 2
Budget(p) == IF p = "poller" THEN MaxBurst ELSE 1

\* The n-th event of producer p.
BusEvent(p, n) == [from |-> p, seq |-> n]

InitBus ==
    /\ ProgramInit
    /\ StoreIdle /\ HttpIdle /\ PtyIdle
    /\ CloneIdle /\ AttachIdle /\ CmdIdle
    /\ busRun = [pc |-> "polling", ch |-> << >>, sent |-> [p \in Producers |-> 0],
                 msg |-> << >>, got |-> [p \in Producers |-> << >>]]

\* Watcher.emit: `ch <- Event{...}`, which waits while the buffer is full.
BusEmitDropsWhenFull(p) ==
    /\ busRun.pc # "idle"
    /\ busRun.sent[p] < Budget(p)
    /\ busRun' = [busRun EXCEPT !.sent[p] = @ + 1,
                               !.ch = IF Len(@) < ChanCap
                                      THEN Append(@, BusEvent(p, busRun.sent[p] + 1)) ELSE @]
    /\ UNCHANGED busFrame
BusEmit(p) ==
    /\ busRun.pc # "idle"
    /\ busRun.sent[p] < Budget(p)
    /\ Len(busRun.ch) < ChanCap
    /\ busRun' = [busRun EXCEPT !.sent[p] = @ + 1,
                               !.ch = Append(@, BusEvent(p, busRun.sent[p] + 1))]
    /\ UNCHANGED busFrame

\* Model.pollEvents: `case ev, ok := <-m.eventCh: return eventMsg(ev)`
BusReceive ==
    /\ busRun.pc = "polling"
    /\ busRun.ch # << >>
    /\ busRun' = [busRun EXCEPT !.pc = "handling", !.ch = Tail(@), !.msg = <<Head(busRun.ch)>>]
    /\ UNCHANGED busFrame

\* Model.Update, `case eventMsg`: the event is handled and pollEvents is
\* scheduled again.
BusHandle ==
    /\ busRun.pc = "handling"
    /\ LET ev == busRun.msg[1]
       IN busRun' = [busRun EXCEPT !.pc = "polling", !.msg = << >>,
                                  !.got[ev.from] = Append(@, ev.seq)]
    /\ UNCHANGED busFrame

NextBus ==
    \/ \E p \in Producers : BusEmit(p)
    \/ BusReceive
    \/ BusHandle

SpecBus == InitBus /\ [][NextBus]_vars

\* The sequence numbers of producer p among the events of q, in order.
RECURSIVE SeqsOf(_, _)
SeqsOf(q, p) ==
    IF q = << >> THEN << >>
    ELSE (IF Head(q).from = p THEN <<Head(q).seq>> ELSE << >>) \o SeqsOf(Tail(q), p)

\* <<1, ..., n>>
UpTo(n) == [i \in 1..n |-> i]

\* What the consumer has handled of each producer, then what it has received,
\* then what the channel holds of that producer, is exactly what the producer
\* has sent, once each and in the order sent.
BusAccounted ==
    \A p \in Producers :
        busRun.got[p] \o SeqsOf(busRun.msg, p) \o SeqsOf(busRun.ch, p) = UpTo(busRun.sent[p])

\* With 100 events in the channel no producer gets an event in: the next
\* step of the bus is the consumer's.
FullBusBlocks ==
    Len(busRun.ch) = 100 => busRun'.sent = busRun.sent

\* C16: every event sent is delivered to the consumer exactly once and in
\* its producer's order, at most 100 events are buffered, and a producer
\* that finds the channel full waits until the consumer takes an event.
C16_BusDeliversEachOnce ==
    /\ [](busRun.pc # "idle" => BusAccounted /\ Len(busRun.ch) <= 100)
    /\ [][busRun.pc # "idle" => FullBusBlocks]_vars

\* The channel is full, the consumer has handled events of both producers in
\* the middle of the poller's burst, and the poller has more to send.
C16_Witness ==
    /\ busRun.pc # "idle"
    /\ Len(busRun.ch) = 100
    /\ busRun.sent["poller"] < Budget("poller")
    /\ busRun.got["worker"] = <<1>>
    /\ Len(busRun.got["poller"]) >= 1

\* ------------------------------------------------- the status of a found issue

\* What the claim gives for the tree on disk: no workdir, a workdir whose
\* branch has commits beyond main, a workdir without them.
StatusOnDisk(repo, num) ==
    IF IssueKey(repo, num) \notin workdirs THEN <<"pending", "">>
    ELSE IF IssueKey(repo, num) \in commits THEN <<"ready", WorkdirPath(repo, num)>>
    ELSE <<"cloneReady", WorkdirPath(repo, num)>>

\* The issue that the Model tracks last is new in this step, with the status
\* and workdir that the tree on disk gave when the step was taken.
TracksAsOnDisk(ev) ==
    /\ Len(issues') = Len(issues) + 1
    /\ SubSeq(issues', 1, Len(issues)) = issues
    /\ LET new == issues'[Len(issues')]
       IN /\ new.Repo = ev.Repo /\ new.Number = ev.IssueNum
          /\ <<new.Status, new.Workdir>> = StatusOnDisk(ev.Repo, ev.IssueNum)

\* C17: DeriveIssueStatus gives (pending, "") without a workdir, (ready,
\* workdir) for a workdir whose branch has commits beyond main, and
\* (cloneReady, workdir) for a workdir without them; an issue found by a poll
\* is tracked with exactly this status and workdir.
C17_FoundIssueStartsAsOnDisk ==
    /\ [](\A repo \in RepoIds, num \in IssueNums :
            LET d == DeriveIssueStatus(repo, num)
            IN /\ <<d.Status, d.Workdir>> = StatusOnDisk(repo, num)
               /\ d.Status = "pending" <=> d.Workdir = "")
    /\ [][\A repo \in RepoIds, num \in IssueNums :
            Delivered(Event("IssueFound", repo, num))
                => TracksAsOnDisk(Event("IssueFound", repo, num))]_vars

\* An issue whose worker ran was found again after its repository was removed
\* and added: it is tracked as ready with its workdir, and the Manager holds
\* no scope for it.
C17_Witness ==
    /\ Len(issues) = 1
    /\ issues[1].Status = "ready"
    /\ issues[1].Workdir = WorkdirPath(issues[1].Repo, issues[1].Number)
    /\ IssueKey(issues[1].Repo, issues[1].Number) \in commits \cap workdirs
    /\ issueCtxs = EmptyMap
    /\ workers = EmptyMap
    /\ eventCh = << >>

\* ------------------------------------------------ the workdir of a tracked issue

\* The statuses that the claim gives a workdir.
StatusesWithWorkdir == {"cloneReady", "claudeRunning", "ready", "failed", "paused"}

\* C18: a tracked issue whose status is cloneReady, claudeRunning, ready,
\* failed or paused has a non-empty workdir.
C18_StatusHasWorkdir ==
    \A i \in 1..Len(issues) :
        issues[i].Status \in StatusesWithWorkdir => issues[i].Workdir # ""

\* ------------------------------------------------- tracked issues and polls

\* The tracked issues, as (repo, number) pairs.
TrackedSet == {<<issues[i].Repo, issues[i].Number>> : i \in 1..Len(issues)}

\* The issues returned by the latest poll of each watched repository.
LastPolledSet ==
    {<<r, n>> : r \in DOMAIN watchers, n \in IssueNums} \cap
    {<<pollers[id].repo, n>> : id \in DOMAIN pollers, n \in IssueNums} \cap
    UNION {{<<pollers[id].repo, n>> : n \in pollers[id].open} :
             id \in {watchers[r] : r \in DOMAIN watchers} \cap DOMAIN pollers}

\* Every poller is the one of a watched repository and waits for its next
\* tick after a poll that succeeded, and every event has been handled.
PollsConsumed ==
    /\ phase = "running"
    /\ eventCh = << >>
    /\ DOMAIN pollers = {watchers[r] : r \in DOMAIN watchers}
    /\ \A id \in DOMAIN pollers : pollers[id].pc = "wait" /\ pollers[id].polled

\* C19: once the events of the polls have been consumed, the tracked issues
\* are exactly the issues returned by the latest poll of each watched
\* repository.
C19_TrackedIsLatestPoll == PollsConsumed => TrackedSet = LastPolledSet

\* ------------------------------------------------------ cancelled workers

\* Where a worker is inside a stage: AddReaction, cloneRepo, RunClaude.
StagePcs == {"react", "clone", "runClaude", "claude"}

\* Where a worker is about to report a failed stage.
ReportPcs == {"emitReactErr", "emitCloneErr", "emitClaudeDoneFail", "emitError"}

\* Worker id leaves the stage it is in.
StageEnds(id) ==
    /\ id \in DOMAIN workers
    /\ workers[id].pc \in StagePcs
    /\ id \in DOMAIN workers' => workers'[id].pc # workers[id].pc

\* C20: a worker whose stage ends under a cancelled scope puts no event on
\* the channel in that step and returns (or, its reaction posted, goes on to
\* the scope check and returns there); it never goes on to report a failure,
\* and every error event of a worker reports a stage that failed while the
\* worker's scope was live.
C20_CancelledWorkerIsSilent ==
    [][\A id \in CtxIds :
          /\ (StageEnds(id) /\ id \in cancelled) =>
                /\ eventCh' = eventCh
                /\ \/ id \notin DOMAIN workers'
                   \/ workers[id].pc = "react" /\ workers'[id].pc = "emitReacted"
          /\ (id \in DOMAIN workers' /\ workers'[id].pc \in ReportPcs
                /\ ~(id \in DOMAIN workers /\ workers[id].pc \in ReportPcs)) =>
                StageEnds(id) /\ id \notin cancelled
          /\ WorkerEmits(id, "Error") => workers[id].pc \in ReportPcs]_vars

\* A paused issue whose cancelled worker is inside the agent stage.
C20_Witness ==
    \E id \in DOMAIN workers \cap cancelled :
        /\ workers[id].pc = "claude"
        /\ \E i \in 1..Len(issues) :
             /\ issues[i].Repo = workers[id].repo
             /\ issues[i].Number = workers[id].num
             /\ issues[i].Status = "paused"

\* ------------------------------------------------------------------------
\* C21.  Once a worker's scope is cancelled, at most one further event of
\* that worker is placed on the event channel: a worker that has emitted an
\* event under its cancelled scope (late) emits no second one, whatever the
\* stage it was cancelled in, the agent's streaming output included.
C21_OneEventAfterCancel ==
    [][\A id \in CtxIds, kind \in WorkerKinds :
          (WorkerEmits(id, kind) /\ id \in cancelled) => ~workers[id].late]_vars

\* ------------------------------------------------------------------------
\* C22.  The start/pause command is a function of the selected issue's
\* status.

\* The operator gives the start/pause command on the tracked issue i.
Toggles(i) ==
    /\ i \in 1..Len(issues)
    /\ \E ptyOk \in BOOLEAN : toggleIssueProcessing(i, ptyOk)

\* After the step a worker that has not run yet is at the React stage for the
\* issue (repo, num), under a scope made in the step, registered and live.
FreshWorkerStarted(repo, num) ==
    LET id == ctxCount + 1 IN
    /\ ctxCount' = id
    /\ IssueKey(repo, num) \in DOMAIN issueCtxs'
    /\ issueCtxs'[IssueKey(repo, num)] = id
    /\ id \notin cancelled'
    /\ id \in DOMAIN workers'
    /\ workers'[id] = NewWorker(repo, num)

\* After the step the issue's scope, if one was registered, is cancelled and
\* no scope is registered for it.
ScopeCancelled(repo, num) ==
    /\ PriorScope(IssueKey(repo, num)) \subseteq cancelled'
    /\ IssueKey(repo, num) \notin DOMAIN issueCtxs'

\* C22: on pending, paused and failed the command starts a fresh worker at the
\* React stage and sets reacted (failed: lastError cleared as well); on
\* reacted, cloning, cloneReady and claudeRunning it cancels and unregisters
\* the scope and sets paused in the same step; on ready it changes nothing.
C22_ToggleByStatus ==
    [][\A i \in 1..Len(issues) :
          Toggles(i) =>
            LET iss == issues[i] IN
            CASE iss.Status \in {"pending", "paused", "failed"} ->
                   /\ FreshWorkerStarted(iss.Repo, iss.Number)
                   /\ issues'[i].Status = "reacted"
                   /\ iss.Status = "failed" => issues'[i].Error = ""
              [] isActive(iss.Status) ->
                   /\ ScopeCancelled(iss.Repo, iss.Number)
                   /\ issues'[i].Status = "paused"
                   /\ workers' = workers
              [] OTHER ->
                   /\ iss.Status = "ready"
                   /\ UNCHANGED <<mgrVars, goVars, issues>>]_vars

\* ------------------------------------------------------------------------
\* C23.  AddRepo, RemoveRepo and MarkProcessed take m.mu on entry and release
\* it by defer, on return: the lock is held from the edit of m.state to the
\* return of saveState, that is, while a saveState call is under way.
LockHeld == savePc.pc # "idle"

\* C23: no file is written or renamed while the Manager's lock is held.
C23_NoIoUnderLock ==
    [][LockHeld => UNCHANGED fileVars]_vars

\* ------------------------------------------------------------------------
\* C24.  Cancelled goroutines exit.

\* The program as in SpecQuiet, the operator giving up to MaxKeys commands
\* and the agent printing up to MaxClaudeLogs lines.
InitLive ==
    /\ watchers = EmptyMap
    /\ repoWatchers = {}
    /\ knownIssues = EmptyMap
    /\ issueCtxs = EmptyMap
    /\ state = loadState(NoFile)
    /\ stateFile = NoFile
    /\ tmpFile = NoFile
    /\ savePc = SaveIdle
    /\ workdirs = {}
    /\ commits = {}
    /\ logFiles = EmptyMap
    /\ ctxCount = 0
    /\ cancelled = {}
    /\ pollers = EmptyMap
    /\ workers = EmptyMap
    /\ launching = {}
    /\ eventCh = <<>>
    /\ issues = <<>>
    /\ logs = EmptyMap
    /\ repoErrors = {}
    /\ ptySessions = EmptyMap
    /\ execMsgs = {}
    /\ phase = "new"
    /\ ret = [op |-> "NewManager", err |-> FALSE]
    /\ restarts = 0
    /\ faultsLeft = 0
    /\ ticksLeft = 0
    /\ keysLeft = MaxKeys
    /\ agentLines = MaxClaudeLogs
    /\ LibIdle

\* The steps of the goroutine that runs under scope id, a poller or a worker.
GoroutineRuns(id) ==
    \/ PollBegin(id)
    \/ PollCheck(id)
    \/ PollStore(id)
    \/ PollEmitFound(id)
    \/ PollEmitDone(id)
    \/ PollExit(id)
    \/ WorkerReact(id)
    \/ WorkerEmitReacted(id)
    \/ WorkerCheckReact(id)
    \/ WorkerEmitCloneStart(id)
    \/ WorkerClone(id)
    \/ WorkerEmitCloneDone(id)
    \/ WorkerCheckClone(id)
    \/ WorkerEmitClaudeStart(id)
    \/ WorkerClaudeStart(id)
    \/ WorkerClaudeLog(id)
    \/ WorkerClaudeExit(id)
    \/ WorkerEmitClaudeDone(id)
    \/ WorkerEmitReady(id)

\* The scheduler runs every goroutine that can take a step: a hosting call
\* and a subprocess return, a send on a channel with room completes, a
\* ready select case is taken.  Nothing obliges the receiver of the event
\* channel: the Model's Update loop takes an event only when the program's
\* message loop gets to it, which it does not while the operator's terminal
\* is handed to an attached session (tea.Exec).
SpecLive ==
    InitLive /\ [][NextQuiet]_vars /\ \A id \in CtxIds : WF_vars(GoroutineRuns(id))

\* The goroutine of scope id has not returned.
Running(id) == id \in DOMAIN pollers \/ id \in DOMAIN workers

EventPending(repo, num) ==
    \E k \in 1..Len(eventCh) : eventCh[k].Repo = repo /\ eventCh[k].IssueNum = num

\* A worker of the issue (repo, num) is running under a live scope.
WorkerGoesOn(repo, num) ==
    \E id \in DOMAIN workers \ cancelled :
        workers[id].repo = repo /\ workers[id].num = num

\* The operator has given no command besides the two it takes to get a
\* worker running: adding the repository and starting the issue.
OnlyStarted == keysLeft >= MaxKeys - 2

\* C25: left alone by the operator and with no scope cancelled, a tracked
\* issue whose reaction failed is in another status than ready only as long
\* as its worker is running or an event of the issue is still to be handled:
\* the failure of the reaction alone does not leave the issue failed, and
\* with the clone and the agent done the issue ends in ready.
C25_ReactFailureIsNotFatal ==
    \A i \in 1..Len(issues) :
        (/\ ModelIdle
         /\ OnlyStarted
         /\ cancelled = {}
         /\ issues[i].Error = "React failed"
         /\ ~WorkerGoesOn(issues[i].Repo, issues[i].Number)
         /\ ~EventPending(issues[i].Repo, issues[i].Number))
            => issues[i].Status = "ready"

\* The reaction failed, the worker went on to the end and the issue is ready.
C25_Witness ==
    \E i \in 1..Len(issues) :
        /\ ModelIdle
        /\ OnlyStarted
        /\ cancelled = {}
        /\ issues[i].Error = "React failed"
        /\ ~WorkerGoesOn(issues[i].Repo, issues[i].Number)
        /\ ~EventPending(issues[i].Repo, issues[i].Number)
        /\ issues[i].Status = "ready"

\* ------------------------------------------------------------------------
\* C26.  A failed clone and a failed agent end the run.

\* The operator adds the repository and starts, pauses, resumes and retries
\* its issues, up to MaxKeysRetry commands; one call of a goroutine fails.
MaxKeysRetry == 4

InitRetry ==
    /\ watchers = EmptyMap
    /\ repoWatchers = {}
    /\ knownIssues = EmptyMap
    /\ issueCtxs = EmptyMap
    /\ state = loadState(NoFile)
    /\ stateFile = NoFile
    /\ tmpFile = NoFile
    /\ savePc = SaveIdle
    /\ workdirs = {}
    /\ commits = {}
    /\ logFiles = EmptyMap
    /\ ctxCount = 0
    /\ cancelled = {}
    /\ pollers = EmptyMap
    /\ workers = EmptyMap
    /\ launching = {}
    /\ eventCh = <<>>
    /\ issues = <<>>
    /\ logs = EmptyMap
    /\ repoErrors = {}
    /\ ptySessions = EmptyMap
    /\ execMsgs = {}
    /\ phase = "new"
    /\ ret = [op |-> "NewManager", err |-> FALSE]
    /\ restarts = 0
    /\ faultsLeft = MaxFaults
    /\ ticksLeft = 0
    /\ keysLeft = MaxKeysRetry
    /\ agentLines = MaxClaudeLogs
    /\ LibIdle

\* The steps of a poller whose scope stays live and whose timer does not fire.
PollerStepOnce ==
    \E id \in CtxIds :
        \/ PollBegin(id)
        \/ PollCheck(id)
        \/ PollStore(id)
        \/ PollEmitFound(id)
        \/ PollEmitDone(id)
        \/ PollEmitErr(id)

NextRetry ==
    \/ MainStart
    \/ HandleEvent
    \/ \E i \in 1..Len(issues) : toggleIssueProcessing(i, TRUE)
    \/ KeyAddRepo(QuietRepo)
    \/ PollerStepOnce
    \/ WorkerStep

SpecRetry == InitRetry /\ [][NextRetry]_vars

\* The texts of the error events that report a failed clone or agent.
FatalTexts == {"Clone failed", "claude exited"}

\* The tracked issue i is failed on account of the clone or of the agent.
FailedForGood(i) == issues[i].Status = "failed" /\ issues[i].Error \in FatalTexts

\* The Model handles an error event of a failed clone or agent for a tracked
\* issue that is not paused.
HandlesFatal(ev) ==
    /\ HandleEvent
    /\ ev = Head(eventCh)
    /\ ev.Kind = "Error"
    /\ ev.Text \in FatalTexts
    /\ Matches(issues, ev.Repo, ev.IssueNum) # {}
    /\ findIssueStatus(issues, ev.Repo, ev.IssueNum) # "paused"

\* C26: the error event of a failed clone or agent is the last event of its
\* worker (the agent's after ClaudeDone), so no Ready follows; handling it
\* sets the issue to failed with the event's text as its Error; and no event
\* handled afterwards changes an issue that is failed in this way: it stays
\* failed until the operator acts on it.
C26_FailureIsFatal ==
    [][/\ \A id \in CtxIds :
            (WorkerEmits(id, "Error") /\ workers[id].pc # "emitReactErr") =>
                /\ id \notin DOMAIN workers'
                /\ eventCh'[Len(eventCh')].Text \in FatalTexts
                /\ eventCh'[Len(eventCh')].Text = "claude exited" => workers[id].sent = "ClaudeDone"
       /\ \A ev \in Range(eventCh) :
            HandlesFatal(ev) =>
                LET i == FirstMatch(issues, ev.Repo, ev.IssueNum) IN
                /\ issues'[i].Status = "failed"
                /\ issues'[i].Error = ev.Text
       /\ HandleEvent => \A i \in 1..Len(issues) : FailedForGood(i) => issues'[i] = issues[i]]_vars

\* ------------------------------------------------------------------------
\* C27.  The events of one poll tick.

\* The operator adds and removes repositories, MaxKeysPoll commands in all;
\* the timers fire MaxTicksPoll times and one call fails.
MaxKeysPoll == 2
MaxTicksPoll == 2

InitPoll ==
    /\ watchers = EmptyMap
    /\ repoWatchers = {}
    /\ knownIssues = EmptyMap
    /\ issueCtxs = EmptyMap
    /\ state = loadState(NoFile)
    /\ stateFile = NoFile
    /\ tmpFile = NoFile
    /\ savePc = SaveIdle
    /\ workdirs = {}
    /\ commits = {}
    /\ logFiles = EmptyMap
    /\ ctxCount = 0
    /\ cancelled = {}
    /\ pollers = EmptyMap
    /\ workers = EmptyMap
    /\ launching = {}
    /\ eventCh = <<>>
    /\ issues = <<>>
    /\ logs = EmptyMap
    /\ repoErrors = {}
    /\ ptySessions = EmptyMap
    /\ execMsgs = {}
    /\ phase = "new"
    /\ ret = [op |-> "NewManager", err |-> FALSE]
    /\ restarts = 0
    /\ faultsLeft = MaxFaults
    /\ ticksLeft = MaxTicksPoll
    /\ keysLeft = MaxKeysPoll
    /\ agentLines = MaxClaudeLogs
    /\ LibIdle

NextPoll ==
    \/ MainStart
    \/ HandleEvent
    \/ \E repo \in RepoIds : KeyAddRepo(repo)
    \/ \E repo \in RepoIds : removeSelectedRepoConfirmed(repo)
    \/ PollerStep

SpecPoll == InitPoll /\ [][NextPoll]_vars

\* The poller of scope id puts the event ev on the channel.
PollerEmits(id, ev) ==
    /\ id \in DOMAIN pollers
    /\ id \in DOMAIN pollers'
    /\ pollers'[id] # pollers[id]
    /\ eventCh' = Append(eventCh, ev)

\* The poller of scope id takes a step.
PollerMoves(id) ==
    /\ id \in DOMAIN pollers
    /\ id \in DOMAIN pollers'
    /\ pollers'[id] # pollers[id]

\* The events a poller can emit.
PollEvents ==
    {[Kind |-> k, Repo |-> r, IssueNum |-> n, Text |-> t, Count |-> c] :
        k \in {"PollStart", "IssueFound", "PollDone", "Error"}, r \in RepoIds,
        n \in 0..MaxIssueNum, t \in {"", "Poll failed"}, c \in 0..MaxIssueNum}

MaxCloneIssues == 2
MaxCloneRuns == 3
CloneIssues == 1..MaxCloneIssues

\* Whether os.Stat finds bare.git: it is absent, it is there while a clone is
\* filling it, or it is a complete repository.
BareStates == {"absent", "cloning", "present"}

\* cloneRun: bare.git, the number of clones that completed it, the issues
\* whose worktree exists, the number of `git worktree add` that made each,
\* and the cloneRepo calls, each with its issue, its place and whether its
\* scope is live.  The program starts on an empty base directory or on the
\* directories an earlier process left.
InitClone ==
    /\ ProgramInit
    /\ StoreIdle /\ HttpIdle /\ PtyIdle /\ BusIdle /\ AttachIdle /\ CmdIdle
    /\ \E b \in {"absent", "present"}, t \in SUBSET CloneIssues :
         /\ b = "absent" => t = {}
         /\ cloneRun = [pc |-> "run", bare |-> b, made |-> 0, trees |-> t,
                        added |-> [n \in CloneIssues |-> 0], runs |-> << >>]

CloneRunAt(r, pc) == r \in 1..Len(cloneRun.runs) /\ cloneRun.runs[r].pc = pc
CloneLive(r) == cloneRun.runs[r].live

\* StartIssue for issue n: the scope of the issue's earlier worker is
\* cancelled and a new worker comes to cloneRepo.
CloneRunStart(n) ==
    /\ cloneRun.pc = "run"
    /\ Len(cloneRun.runs) < MaxCloneRuns
    /\ cloneRun' = [cloneRun EXCEPT !.runs =
           Append([r \in 1..Len(@) |-> IF @[r].num = n THEN [@[r] EXCEPT !.live = FALSE]
                                       ELSE @[r]],
                  [num |-> n, pc |-> "statBare", live |-> TRUE])]
    /\ UNCHANGED cloneFrame

\* StopIssue: the scope of the worker is cancelled.
CloneRunCancel(r) ==
    /\ r \in 1..Len(cloneRun.runs)
    /\ CloneLive(r)
    /\ cloneRun.runs[r].pc \notin {"done", "failed"}
    /\ cloneRun' = [cloneRun EXCEPT !.runs[r].live = FALSE]
    /\ UNCHANGED cloneFrame

\* cloneRepo: `if _, err := os.Stat(bareDir); err != nil`
CloneStatBare(r) ==
    /\ CloneRunAt(r, "statBare")
    /\ cloneRun' = [cloneRun EXCEPT !.runs[r].pc =
                       IF cloneRun.bare = "absent" THEN "clone" ELSE "fetchBare"]
    /\ UNCHANGED cloneFrame

\* cloneRepo: `gh repo clone <repo> bareDir -- --bare` is started.  Under a
\* cancelled scope the command does not start; git refuses a destination
\* that exists and is not empty; otherwise it creates bare.git and fills it.
CloneCmdStart(r) ==
    /\ CloneRunAt(r, "clone")
    /\ cloneRun' =
         IF CloneLive(r) /\ cloneRun.bare = "absent"
         THEN [cloneRun EXCEPT !.runs[r].pc = "cloning", !.bare = "cloning"]
         ELSE [cloneRun EXCEPT !.runs[r].pc = "failed"]
    /\ UNCHANGED cloneFrame

\* The clone command ends: it has completed bare.git, or it was killed when
\* the scope was cancelled and leaves what it had written.
CloneCmdFinish(r) ==
    /\ CloneRunAt(r, "cloning")
    /\ cloneRun' =
         IF CloneLive(r)
         THEN [cloneRun EXCEPT !.runs[r].pc = "statTree", !.bare = "present",
                               !.made = @ + 1]
         ELSE [cloneRun EXCEPT !.runs[r].pc = "failed"]
    /\ UNCHANGED cloneFrame

\* cloneRepo: `git fetch origin` in bare.git, which fails under a cancelled
\* scope and may fail in a repository that a clone is still filling.
CloneFetchBare(r) ==
    /\ CloneRunAt(r, "fetchBare")
    /\ \E ok \in BOOLEAN :
         /\ ok => CloneLive(r)
         /\ ~ok => ~CloneLive(r) \/ cloneRun.bare # "present"
         /\ cloneRun' = [cloneRun EXCEPT !.runs[r].pc = IF ok THEN "statTree" ELSE "failed"]
    /\ UNCHANGED cloneFrame

\* cloneRepo: `if _, err := os.Stat(workdir); err == nil`
CloneStatTree(r) ==
    /\ CloneRunAt(r, "statTree")
    /\ cloneRun' = [cloneRun EXCEPT !.runs[r].pc =
                       IF cloneRun.runs[r].num \in cloneRun.trees THEN "fetchTree"
                       ELSE "addTree"]
    /\ UNCHANGED cloneFrame

\* cloneRepo: `git fetch origin` in the worktree, then return nil.
CloneFetchTree(r) ==
    /\ CloneRunAt(r, "fetchTree")
    /\ cloneRun' = [cloneRun EXCEPT !.runs[r].pc = IF CloneLive(r) THEN "done" ELSE "failed"]
    /\ UNCHANGED cloneFrame

\* cloneRepo: `git worktree add -b agent/issue-<n> workdir`, which fails under
\* a cancelled scope and when the worktree exists.
CloneAddTree(r) ==
    /\ CloneRunAt(r, "addTree")
    /\ LET n == cloneRun.runs[r].num IN
       cloneRun' =
         IF CloneLive(r) /\ n \notin cloneRun.trees
         THEN [cloneRun EXCEPT !.runs[r].pc = "done", !.trees = @ \cup {n},
                               !.added[n] = @ + 1]
         ELSE [cloneRun EXCEPT !.runs[r].pc = "failed"]
    /\ UNCHANGED cloneFrame

NextClone ==
    \/ \E n \in CloneIssues : CloneRunStart(n)
    \/ \E r \in 1..MaxCloneRuns : CloneRunCancel(r)
    \/ \E r \in 1..MaxCloneRuns : CloneStatBare(r)
    \/ \E r \in 1..MaxCloneRuns : CloneCmdStart(r)
    \/ \E r \in 1..MaxCloneRuns : CloneCmdFinish(r)
    \/ \E r \in 1..MaxCloneRuns : CloneFetchBare(r)
    \/ \E r \in 1..MaxCloneRuns : CloneStatTree(r)
    \/ \E r \in 1..MaxCloneRuns : CloneFetchTree(r)
    \/ \E r \in 1..MaxCloneRuns : CloneAddTree(r)

SpecClone == InitClone /\ [][NextClone]_vars

\* Call r starts its clone command, or its `git worktree add`, under a live
\* scope.
RunsClone(r) == CloneRunAt(r, "clone") /\ CloneLive(r) /\ ~CloneRunAt(r, "clone")'
RunsAddTree(r) == CloneRunAt(r, "addTree") /\ CloneLive(r) /\ ~CloneRunAt(r, "addTree")'

\* C28: bare.git is completed by a clone at most once, and a clone command is
\* run only while there is no bare.git: once it is there the calls fetch.  An
\* issue's worktree is added at most once, and `git worktree add` is run only
\* while the issue has no worktree: a call that finds it fetches.
C28_CloneAtMostOnce ==
    [][/\ cloneRun'.made <= 1
       /\ \A n \in CloneIssues : cloneRun'.added[n] <= 1
       /\ \A r \in 1..Len(cloneRun.runs) :
            /\ RunsClone(r) => cloneRun.bare = "absent"
            /\ RunsAddTree(r) => cloneRun.runs[r].num \notin cloneRun.trees]_vars

\* ---------------------------------------------------------------------------
\* The shell session of an issue and the operator's attaches (part_002).
\* ---------------------------------------------------------------------------

\* The detach byte Ctrl+] and two other keys the operator can type.
DetachByte == 29
StdinBytes == {97, 98, DetachByte}

MaxReadLen == 2
MaxStdinReads == 2
MaxAttaches == 2
MaxChunks == 3
MaxBackground == 1

\* What one stdin Read can deliver: between one byte and MaxReadLen bytes.
StdinReads == UNION {[1..n -> StdinBytes] : n \in 1..MaxReadLen}

\* The bytes of s before its first detach byte.
RECURSIVE BeforeDetach(_)
BeforeDetach(s) ==
    IF s = << >> \/ Head(s) = DetachByte THEN << >>
    ELSE <<Head(s)>> \o BeforeDetach(Tail(s))

IsPrefixOf(s, t) == Len(s) <= Len(t) /\ s = SubSeq(t, 1, Len(s))

\* attachRun: the session's sink, done flag and open pty; the drain loop with its
\* place, the number of the chunk it holds, the sink it fetched for it and a
\* record of every write it made; the attacher with its place, the number of
\* attaches begun, the read buffer, and for the current attach the bytes stdin
\* delivered and the bytes written to the pty; how the last attach returned;
\* and the command lines a background RunCommand wrote to the pty.
InitAttach ==
    /\ ProgramInit
    /\ StoreIdle /\ HttpIdle /\ PtyIdle /\ BusIdle /\ CloneIdle /\ CmdIdle
    /\ attachRun = [pc |-> "run", sink |-> "discard", done |-> FALSE,
                    open |-> TRUE,
                    drain |-> "read", chunk |-> 0, w |-> "discard",
                    fetched |-> "discard", writes |-> << >>,
                    att |-> "none", attaches |-> 0, reads |-> 0, buf |-> << >>,
                    typed |-> << >>, ptyIn |-> << >>, returned |-> "none",
                    background |-> 0]

AttachRunning == attachRun.pc = "run"

\* The shell exits: the goroutine waiting on cmd.Wait sets done.
ShellExits ==
    /\ AttachRunning
    /\ ~attachRun.done
    /\ attachRun' = [attachRun EXCEPT !.done = TRUE]
    /\ UNCHANGED attachFrame

\* drain: ptmx.Read returns a chunk.
DrainReadChunk ==
    /\ AttachRunning
    /\ attachRun.drain = "read"
    /\ attachRun.chunk < MaxChunks
    /\ attachRun' = [attachRun EXCEPT !.chunk = @ + 1, !.drain = "fetch"]
    /\ UNCHANGED attachFrame

\* drain: under mu, w := s.sink.
DrainFetchSink ==
    /\ AttachRunning
    /\ attachRun.drain = "fetch"
    /\ attachRun' = [attachRun EXCEPT !.w = attachRun.sink,
                                      !.fetched = attachRun.sink,
                                      !.drain = "write"]
    /\ UNCHANGED attachFrame

\* drain: w.Write(chunk), outside the lock, to the current sink rather than
\* the one fetched.
DrainWriteCurrentSink ==
    /\ AttachRunning
    /\ attachRun.drain = "write"
    /\ attachRun' = [attachRun EXCEPT
         !.writes = Append(@, [chunk |-> attachRun.chunk, to |-> attachRun.sink]),
         !.drain = "read"]
    /\ UNCHANGED attachFrame

\* drain: w.Write(chunk), outside the lock.
DrainWrite ==
    /\ AttachRunning
    /\ attachRun.drain = "write"
    /\ attachRun' = [attachRun EXCEPT
         !.writes = Append(@, [chunk |-> attachRun.chunk, to |-> attachRun.w]),
         !.drain = "read"]
    /\ UNCHANGED attachFrame

\* ptyAttacher.Run is entered through tea.Exec, one at a time, on a session
\* that launchShellFor found not done; term.MakeRaw fails and Run returns, or
\* it succeeds and Run goes on to attach.
AttacherRun ==
    /\ AttachRunning
    /\ attachRun.att = "none"
    /\ ~attachRun.done
    /\ attachRun.attaches < MaxAttaches
    /\ \E rawOk \in BOOLEAN :
         attachRun' = [attachRun EXCEPT
           !.attaches = @ + 1,
           !.att = IF rawOk THEN "raw" ELSE "none",
           !.returned = IF rawOk THEN @ ELSE "rawError",
           !.reads = 0, !.typed = << >>, !.ptyIn = << >>]
    /\ UNCHANGED attachFrame

\* s.attach(a.stdout): under mu, s.sink = w.
AttacherAttach ==
    /\ AttachRunning
    /\ attachRun.att = "raw"
    /\ attachRun' = [attachRun EXCEPT !.sink = "stdout", !.att = "read"]
    /\ UNCHANGED attachFrame

\* Run returns: the deferred s.detach() sets the sink back to io.Discard.
AttacherReturned(how) ==
    [attachRun EXCEPT !.sink = "discard", !.att = "none", !.buf = << >>,
                      !.returned = how]

\* a.stdin.Read delivers bytes.
AttacherRead(bs) ==
    /\ AttachRunning
    /\ attachRun.att = "read"
    /\ attachRun.reads < MaxStdinReads
    /\ attachRun' = [attachRun EXCEPT !.buf = bs, !.typed = @ \o bs,
                                      !.reads = @ + 1, !.att = "scan"]
    /\ UNCHANGED attachFrame

\* a.stdin.Read fails: Run returns.
AttacherReadError ==
    /\ AttachRunning
    /\ attachRun.att = "read"
    /\ attachRun' = AttacherReturned("readError")
    /\ UNCHANGED attachFrame

\* The scan of the buffer that forwards the whole buffer before it looks for
\* the detach byte.
AttacherForwardAll ==
    /\ AttachRunning
    /\ attachRun.att = "scan"
    /\ LET buf == attachRun.buf
           fwd == [attachRun EXCEPT !.ptyIn = @ \o buf]
       IN  attachRun' =
             IF DetachByte \in Range(buf)
             THEN [fwd EXCEPT !.sink = "discard", !.att = "none",
                              !.buf = << >>, !.returned = "detach"]
             ELSE [fwd EXCEPT !.att = "read", !.buf = << >>]
    /\ UNCHANGED attachFrame

\* The scan of the buffer: at the first 0x1d the bytes before it are written
\* to the pty and Run returns; without one, Run returns if the shell is done,
\* and else writes the whole buffer to the pty and reads on.
AttacherForward ==
    /\ AttachRunning
    /\ attachRun.att = "scan"
    /\ LET buf == attachRun.buf
       IN  attachRun' =
             IF DetachByte \in Range(buf)
             THEN [AttacherReturned("detach") EXCEPT
                     !.ptyIn = @ \o BeforeDetach(buf)]
             ELSE IF attachRun.done
             THEN AttacherReturned("done")
             ELSE [attachRun EXCEPT !.ptyIn = @ \o buf, !.att = "read",
                                    !.buf = << >>]
    /\ UNCHANGED attachFrame

\* RunCommand writes a command line to the pty of the session, attached or not.
BackgroundCommand ==
    /\ AttachRunning
    /\ attachRun.open
    /\ attachRun.background < MaxBackground
    /\ attachRun' = [attachRun EXCEPT !.background = @ + 1]
    /\ UNCHANGED attachFrame

NextAttach ==
    \/ ShellExits
    \/ DrainReadChunk
    \/ DrainFetchSink
    \/ DrainWrite
    \/ AttacherRun
    \/ AttacherAttach
    \/ \E bs \in StdinReads : AttacherRead(bs)
    \/ AttacherReadError
    \/ AttacherForward
    \/ BackgroundCommand

SpecAttach == InitAttach /\ [][NextAttach]_vars

\* An attach is in progress from s.attach to the deferred s.detach.
AttachInProgress == attachRun.att \in {"read", "scan"}

\* C29: the sink is the discard writer whenever no attach is in progress and
\* the operator's output exactly between attach and detach; and every chunk
\* read from the pty is written exactly once, to the sink that was current
\* when the drain loop fetched the sink for that chunk: the writes are the
\* chunks in order, all of them once the loop is back at its read, and each
\* write the loop makes goes to the sink noted at the fetch.
C29_SinkAndChunks ==
    [][AttachRunning =>
        /\ attachRun.sink = (IF AttachInProgress THEN "stdout" ELSE "discard")
        /\ \A k \in 1..Len(attachRun.writes) : attachRun.writes[k].chunk = k
        /\ Len(attachRun.writes) =
             (IF attachRun.drain = "read" THEN attachRun.chunk
              ELSE attachRun.chunk - 1)
        /\ (attachRun'.writes # attachRun.writes =>
              attachRun'.writes =
                Append(attachRun.writes,
                       [chunk |-> attachRun.chunk, to |-> attachRun.fetched]))]_vars

\* A chunk fetched during an attach has been written to the operator's output
\* after the detach, and an earlier one went to the discard writer.
C29_Witness ==
    /\ AttachRunning
    /\ ~AttachInProgress
    /\ attachRun.returned = "detach"
    /\ \E k \in 1..Len(attachRun.writes) : attachRun.writes[k].to = "discard"
    /\ Len(attachRun.writes) = attachRun.chunk
    /\ attachRun.chunk >= 2
    /\ attachRun.writes[attachRun.chunk].to = "stdout"
    /\ attachRun.sink = "discard"

\* C30: during an attach the bytes written to the pty are, in order, bytes of
\* stdin that precede the first detach byte: all that stdin delivered while
\* the attacher is back at its read, and all that precede the detach byte once
\* the detach byte has ended the attach, so neither the detach byte nor a
\* byte after it reaches the pty; and the return of Run leaves the pty open
\* and the shell as it was.
C30_ForwardUpToDetach ==
    [][AttachRunning =>
        /\ IsPrefixOf(attachRun.ptyIn, BeforeDetach(attachRun.typed))
        /\ (attachRun.att = "read" => attachRun.ptyIn = attachRun.typed)
        /\ (attachRun.att = "none" /\ attachRun.returned = "detach" =>
              /\ DetachByte \in Range(attachRun.typed)
              /\ attachRun.ptyIn = BeforeDetach(attachRun.typed))
        /\ (attachRun.att # "none" /\ attachRun'.att = "none" =>
              /\ attachRun'.open
              /\ attachRun'.done = attachRun.done)]_vars

\* The second attach of the session has ended at a detach byte that had bytes
\* before it and a byte after it in the same read or an earlier read before
\* it, the shell runs on, and a background command has used the pty.
C30_Witness ==
    /\ AttachRunning
    /\ attachRun.attaches = 2
    /\ attachRun.att = "none"
    /\ attachRun.returned = "detach"
    /\ attachRun.ptyIn # << >>
    /\ Len(attachRun.typed) > Len(attachRun.ptyIn) + 1
    /\ ~attachRun.done
    /\ attachRun.open
    /\ attachRun.background = 1

\* ---------------------------------------------------------------------------
\* RunCommand calls on one shell session, beside its drain loop (part_002).
\* ---------------------------------------------------------------------------

MaxCommands == 2
CmdCalls == 1..MaxCommands

\* The interrupt byte Ctrl+C.
InterruptByte == 3

\* RunCommand: `id := fmt.Sprintf("%d", time.Now().UnixNano())`, a later call
\* at a later time; and the status with which the command of call k ends.
CmdId(k) == ToString(6 + k)
CmdStatus(k) == k

\* What the pty gives back for call k: the echo of the line written, and when
\* the command line has run the line printed by echo and the next prompt.
EchoPiece(k) == FullCmd(CommandLine, Marker(CmdId(k)))
MarkerPiece(k) == Marker(CmdId(k)) \o ToString(CmdStatus(k)) \o "\n"
PromptPiece == "$ "

NoChan == 0
NewCall == [at |-> "begin", done |-> FALSE, code |-> 0, err |-> FALSE,
            interrupted |-> FALSE, cleared |-> FALSE]

\* cmdRun: the session's pendingID, pendingCh (the number of the call that
\* made the channel) and scanBuf, the holder of markerMu, the result channel
\* of each call, the calls with their place, scope and result, the pty
\* output not yet read, the drain loop's place, chunk and the code it is
\* sending, the bytes 0x03 written to the pty and which commands the shell
\* has been given and has finished.
InitCmd ==
    /\ ProgramInit
    /\ StoreIdle /\ HttpIdle /\ PtyIdle /\ BusIdle /\ CloneIdle /\ AttachIdle
    /\ cmdRun = [pc |-> "run", pendingID |-> "", pendingCh |-> NoChan, scanBuf |-> "",
                 markerMu |-> "free",
                 chans |-> [k \in CmdCalls |-> << >>],
                 calls |-> << >>,
                 out |-> << >>,
                 drain |-> "read", chunk |-> "", code |-> 0,
                 interrupts |-> 0,
                 given |-> {}, finished |-> {}]

CmdRunning == cmdRun.pc = "run"
CallAt(k, at) == k \in 1..Len(cmdRun.calls) /\ cmdRun.calls[k].at = at
InFlight(k) == k \in 1..Len(cmdRun.calls) /\ cmdRun.calls[k].at # "returned"

\* A worker of the issue calls RunCommand: its first command, or its next one
\* when the one before has returned without error, or the first command of a
\* new worker that StartIssue launched after cancelling the scope of the one
\* before.  RunCommand makes the channel and, under markerMu, sets the pending
\* id, the channel and an empty scan buffer.
CmdCall ==
    /\ CmdRunning
    /\ Len(cmdRun.calls) < MaxCommands
    /\ LET k == Len(cmdRun.calls)
       IN  k > 0 => \/ cmdRun.calls[k].done
                    \/ cmdRun.calls[k].at = "returned" /\ ~cmdRun.calls[k].err
    /\ cmdRun' = [cmdRun EXCEPT !.calls = Append(@, NewCall)]
    /\ UNCHANGED cmdFrame

\* RunCommand: s.markerMu.Lock(); pendingID, pendingCh, scanBuf = id,
\* resultCh, nil; Unlock.
CmdSetPending(k) ==
    /\ CmdRunning
    /\ CallAt(k, "begin")
    /\ cmdRun.markerMu = "free"
    /\ cmdRun' = [cmdRun EXCEPT !.pendingID = CmdId(k), !.pendingCh = k,
                                !.scanBuf = "", !.calls[k].at = "write"]
    /\ UNCHANGED cmdFrame

\* RunCommand: s.ptmx.Write([]byte(fullCmd)); the terminal echoes the line.
CmdWrite(k) ==
    /\ CmdRunning
    /\ CallAt(k, "write")
    /\ cmdRun' = [cmdRun EXCEPT !.given = @ \cup {k},
                                !.out = Append(@, EchoPiece(k)),
                                !.calls[k].at = "select"]
    /\ UNCHANGED cmdFrame

\* The scope of call k is cancelled (StopIssue, or StartIssue for a new
\* worker, or RemoveRepo).
CmdCancel(k) ==
    /\ CmdRunning
    /\ InFlight(k)
    /\ ~cmdRun.calls[k].done
    /\ cmdRun' = [cmdRun EXCEPT !.calls[k].done = TRUE]
    /\ UNCHANGED cmdFrame

\* RunCommand's select, `case <-ctx.Done()`: s.ptmx.Write([]byte{0x03}) and
\* return -1, ctx.Err().
CmdSelectDone(k) ==
    /\ CmdRunning
    /\ CallAt(k, "select")
    /\ cmdRun.calls[k].done
    /\ cmdRun' = [cmdRun EXCEPT !.interrupts = @ + 1,
                                !.calls[k].interrupted = TRUE,
                                !.calls[k].at = "defer", !.calls[k].code = -1,
                                !.calls[k].err = TRUE]
    /\ UNCHANGED cmdFrame

\* RunCommand's select, `case code := <-resultCh`: return code, nil.
CmdSelectCode(k) ==
    /\ CmdRunning
    /\ CallAt(k, "select")
    /\ cmdRun.chans[k] # << >>
    /\ cmdRun' = [cmdRun EXCEPT !.chans[k] = Tail(@),
                                !.calls[k].at = "defer",
                                !.calls[k].code = Head(cmdRun.chans[k])]
    /\ UNCHANGED cmdFrame

\* RunCommand's deferred function: s.markerMu.Lock(); pendingID, pendingCh,
\* scanBuf = "", nil, nil; Unlock; and the call returns.
CmdDeferred(k) ==
    /\ CmdRunning
    /\ CallAt(k, "defer")
    /\ cmdRun.markerMu = "free"
    /\ cmdRun' = [cmdRun EXCEPT !.pendingID = "", !.pendingCh = NoChan,
                                !.scanBuf = "", !.calls[k].at = "returned",
                                !.calls[k].cleared = TRUE]
    /\ UNCHANGED cmdFrame

\* The shell comes to the end of the command line of call k, interrupted or
\* not: echo prints the marker and the status, and the prompt follows.
ShellFinishes(k) ==
    /\ CmdRunning
    /\ k \in cmdRun.given \ cmdRun.finished
    /\ cmdRun' = [cmdRun EXCEPT !.finished = @ \cup {k},
                                !.out = @ \o <<MarkerPiece(k), PromptPiece>>]
    /\ UNCHANGED cmdFrame

\* drain: s.ptmx.Read(buf) returns the next piece of output, which goes to
\* the sink.
CmdDrainRead ==
    /\ CmdRunning
    /\ cmdRun.drain = "read"
    /\ cmdRun.out # << >>
    /\ cmdRun' = [cmdRun EXCEPT !.chunk = Head(cmdRun.out), !.out = Tail(@),
                                !.drain = "lock"]
    /\ UNCHANGED cmdFrame

\* drain: s.markerMu.Lock(); while a command is pending the chunk is appended
\* to the scan buffer and checkMarker runs; a code it finds is sent on
\* pendingCh, at once if the channel has room, and else the loop waits in the
\* send with markerMu held.
CmdDrainScan ==
    /\ CmdRunning
    /\ cmdRun.drain = "lock"
    /\ cmdRun.markerMu = "free"
    /\ LET buf == cmdRun.scanBuf \o cmdRun.chunk
           r == checkMarker(cmdRun.pendingID, buf)
           ch == cmdRun.pendingCh
       IN  cmdRun' =
             IF cmdRun.pendingID = ""
             THEN [cmdRun EXCEPT !.drain = "read", !.chunk = ""]
             ELSE IF ~r.found \/ ch = NoChan
             THEN [cmdRun EXCEPT !.drain = "read", !.chunk = "", !.scanBuf = buf]
             ELSE IF cmdRun.chans[ch] = << >>
             THEN [cmdRun EXCEPT !.drain = "read", !.chunk = "", !.scanBuf = buf,
                                 !.chans[ch] = <<r.code>>]
             ELSE [cmdRun EXCEPT !.drain = "send", !.chunk = "", !.scanBuf = buf,
                                 !.code = r.code, !.markerMu = "drain"]
    /\ UNCHANGED cmdFrame

\* drain: the send `s.pendingCh <- code` goes through when the channel has
\* room; checkMarker returns and markerMu is unlocked.
CmdDrainSend ==
    /\ CmdRunning
    /\ cmdRun.drain = "send"
    /\ cmdRun.chans[cmdRun.pendingCh] = << >>
    /\ cmdRun' = [cmdRun EXCEPT !.chans[cmdRun.pendingCh] = <<cmdRun.code>>,
                                !.drain = "read", !.code = 0, !.markerMu = "free"]
    /\ UNCHANGED cmdFrame

CallSteps(k) ==
    \/ CmdSetPending(k)
    \/ CmdWrite(k)
    \/ CmdSelectDone(k)
    \/ CmdSelectCode(k)
    \/ CmdDeferred(k)

DrainSteps == CmdDrainRead \/ CmdDrainScan \/ CmdDrainSend

NextCmd ==
    \/ CmdCall
    \/ \E k \in CmdCalls : CmdSetPending(k)
    \/ \E k \in CmdCalls : CmdWrite(k)
    \/ \E k \in CmdCalls : CmdCancel(k)
    \/ \E k \in CmdCalls : CmdSelectDone(k)
    \/ \E k \in CmdCalls : CmdSelectCode(k)
    \/ \E k \in CmdCalls : CmdDeferred(k)
    \/ \E k \in CmdCalls : ShellFinishes(k)
    \/ CmdDrainRead
    \/ CmdDrainScan
    \/ CmdDrainSend

SpecCmd == InitCmd /\ [][NextCmd]_vars

\* The steps of the goroutines: the RunCommand calls, the drain loop and the
\* shell.
GoSteps ==
    \/ \E k \in CmdCalls : CallSteps(k)
    \/ DrainSteps
    \/ \E k \in CmdCalls : ShellFinishes(k)

\* The session does not stand still while one of its goroutines can take a
\* step (every run of the session has finitely many steps).
SpecCmdLive == SpecCmd /\ WF_vars(GoSteps)

\* What holds of every RunCommand call, cancelled or not: an error return
\* carries the code -1 and follows the write of the interrupt byte, a code
\* returned without error is the status of the call's own command, never the
\* one printed by another call's command, and the step that returns leaves
\* the pending id and channel cleared.
CancelledCallIsClean ==
    [][CmdRunning =>
        \A k \in 1..Len(cmdRun.calls) :
           LET c == cmdRun.calls[k]
           IN  /\ c.err => c.code = -1 /\ c.interrupted /\ cmdRun.interrupts > 0
               /\ (c.at \in {"defer", "returned"} /\ ~c.err) => c.code = CmdStatus(k)
               /\ (c.at = "defer" /\ cmdRun'.calls[k].at = "returned") =>
                     cmdRun'.pendingID = "" /\ cmdRun'.pendingCh = NoChan]_vars

\* C31: a RunCommand whose scope is cancelled while its command is pending
\* writes the interrupt byte, returns -1 with an error and clears the pending
\* marker: a call that is at its select under a cancelled scope comes to have
\* returned.
C31_CancelledCommandReturns ==
    \A k \in CmdCalls :
        (CallAt(k, "select") /\ cmdRun.calls[k].done) ~> CallAt(k, "returned")

LaterCallIsForgotten ==
    /\ CmdRunning
    /\ CallAt(1, "returned") /\ CallAt(2, "select")
    /\ ~cmdRun.calls[2].done
    /\ cmdRun.finished = {1, 2}
    /\ cmdRun.out = << >> /\ cmdRun.drain = "read"
    /\ cmdRun.chans[2] = << >>
    /\ cmdRun.pendingID = ""

\* The drain loop waits in its send with markerMu held, the channel is full,
\* and the call that made the channel has left its select and waits for
\* markerMu in its deferred function: neither can ever go on.
Deadlocked ==
    /\ cmdRun.drain = "send"
    /\ cmdRun.markerMu = "drain"
    /\ cmdRun.chans[cmdRun.pendingCh] # << >>
    /\ CallAt(cmdRun.pendingCh, "defer")

\* C40: RunCommand and the drain loop never deadlock: the drain loop is never
\* left waiting for ever in the delivery of an exit code with the marker lock
\* held while RunCommand waits for that lock.
C40_NoDeadlock == CmdRunning => ~Deadlocked

\* ---------------------------------------------------------------------------
\* Takeover of an issue and the return from it.
\* ---------------------------------------------------------------------------

MaxKeysTakeover == 4

\* The program is started on a base directory in which an earlier process may
\* have left the worktree of the repository's issue, with or without commits
\* on its branch; no call fails and no ticker fires after the first poll.
InitTakeover ==
    /\ watchers = EmptyMap
    /\ repoWatchers = {}
    /\ knownIssues = EmptyMap
    /\ issueCtxs = EmptyMap
    /\ state = loadState(NoFile)
    /\ stateFile = NoFile
    /\ tmpFile = NoFile
    /\ savePc = SaveIdle
    /\ workdirs \in SUBSET {IssueKey(QuietRepo, n) : n \in IssueNums}
    /\ commits \in SUBSET workdirs
    /\ logFiles = EmptyMap
    /\ ctxCount = 0
    /\ cancelled = {}
    /\ pollers = EmptyMap
    /\ workers = EmptyMap
    /\ launching = {}
    /\ eventCh = <<>>
    /\ issues = <<>>
    /\ logs = EmptyMap
    /\ repoErrors = {}
    /\ ptySessions = EmptyMap
    /\ execMsgs = {}
    /\ phase = "new"
    /\ ret = [op |-> "NewManager", err |-> FALSE]
    /\ restarts = 0
    /\ faultsLeft = 0
    /\ ticksLeft = 0
    /\ keysLeft = MaxKeysTakeover
    /\ agentLines = MaxClaudeLogs
    /\ LibIdle

NextTakeover ==
    \/ MainStart
    \/ HandleEvent
    \/ \E i \in 1..Len(issues) : toggleIssueProcessing(i, TRUE)
    \/ KeyAddRepo(QuietRepo)
    \/ removeSelectedRepoConfirmed(QuietRepo)
    \/ \E i \in 1..Len(issues), made \in BOOLEAN : takeoverClaudeFor(i, TRUE, made)
    \/ \E msg \in execMsgs : handleInteractiveReturn(msg)
    \/ PollerStepQuiet
    \/ WorkerStepQuiet

SpecTakeover == InitTakeover /\ [][NextTakeover]_vars

\* The status that the probe of the branch gives the issue of msg.
ProbedStatus(msg) ==
    IF IssueKey(msg.repo, msg.num) \in commits THEN "ready" ELSE "cloneReady"

\* In this step the operator takes over tracked issue i.
TakesOver(i) ==
    /\ OperatorStep
    /\ \E made \in BOOLEAN : takeoverClaudeFor(i, TRUE, made)

\* In this step the Model handles the return msg of a takeover.
Returns(msg) == TakeoverReturned /\ handleInteractiveReturn(msg)

\* C33: a takeover of an issue with an active status cancels the issue's
\* worker, and when the return of the takeover is handled every tracked issue
\* of the pair has the status the probe gives: ready with commits on the
\* branch, cloneReady without.
C33_TakeoverReturn ==
    [][/\ \A i \in 1..Len(issues) :
            (TakesOver(i) /\ isActive(issues[i].Status)) =>
                \A id \in DOMAIN workers' :
                    IssueKey(workers'[id].repo, workers'[id].num) =
                        IssueKey(issues[i].Repo, issues[i].Number)
                    => id \in cancelled'
       /\ \A msg \in execMsgs :
            Returns(msg) =>
                \A j \in Matches(issues', msg.repo, msg.num) :
                    issues'[j].Status = ProbedStatus(msg)]_vars

\* The same with the issue's status read as the Model's lookup reads it.
TakeoverReturnByLookup ==
    [][\A msg \in execMsgs :
          (Returns(msg) /\ Matches(issues', msg.repo, msg.num) # {}) =>
              findIssueStatus(issues', msg.repo, msg.num) = ProbedStatus(msg)]_vars

\* ---------------------------------------------------------------------------
\* The attempt that follows a rate-limit response.
\* ---------------------------------------------------------------------------

\* The outcome of a rate-limit response: a 429, or a 403 with no requests
\* remaining.
RateLimitedOutcome(o) == o.status = 429 \/ (o.status = 403 /\ o.exhausted)

\* Client.do is about to send an attempt and the attempt before it met a
\* rate-limit response.
SendsAfterRateLimit ==
    /\ httpRun.pc = "send"
    /\ Len(httpRun.seen) >= 1
    /\ RateLimitedOutcome(httpRun.seen[Len(httpRun.seen)])

\* After a rate-limit response the limiter holds remaining 0 and a reset time
\* that handleRateLimit took from the response at the time of the response:
\* the Retry-After seconds ahead, the X-RateLimit-Reset epoch, or 60 seconds
\* ahead.
RateLimitIsRecorded ==
    [][(httpRun.pc = "send" /\ httpRun'.pc \in {"backoff", "done"}
          /\ Len(httpRun'.seen) >= 1
          /\ RateLimitedOutcome(httpRun'.seen[Len(httpRun'.seen)])) =>
        /\ httpRun'.rl.remaining = 0
        /\ \E h \in Headers :
             httpRun'.rl = handleRateLimit(LimiterUpdate(httpRun.rl, h), h, httpRun.now)
        /\ httpRun'.rl.resetAt \in
             {httpRun.now + 2, 103, httpRun.now + rateLimitFallback}]_vars

\* C34: after a rate-limit response the limiter holds remaining 0 and the
\* reset time, and the next attempt is not sent before the reset time plus one
\* second.
C34_WaitsForReset ==
    SendsAfterRateLimit =>
        /\ httpRun.rl.remaining = 0
        /\ httpRun.now >= httpRun.rl.resetAt + 1

\* ---------------------------------------------------------------------------
\* The processed record.
\* ---------------------------------------------------------------------------

\* num is one of the numbers listed for repo in a processed map.
InList(processed, repo, num) ==
    /\ repo \in DOMAIN processed
    /\ \E i \in 1..Len(processed[repo]) : processed[repo][i] = num

\* os.Stat of <baseDir>/<repo>/<num> succeeds: the directory holds the
\* issue's worktree or its log.
IssueDirExists(repo, num) ==
    \/ IssueKey(repo, num) \in workdirs
    \/ IssueKey(repo, num) \in DOMAIN logFiles

\* Manager.IsProcessed(repo, num)
IsProcessed(repo, num) ==
    \/ InList(state.Processed, repo, num)
    \/ IssueDirExists(repo, num)

\* IsProcessed(repo, num) as a Manager made from state.json would answer it.
IsProcessedOnDisk(repo, num) ==
    \/ InList(loadState(stateFile).Processed, repo, num)
    \/ IssueDirExists(repo, num)

\* C35: an issue without a directory that is in neither record gets into one
\* only by MarkProcessed of it; MarkProcessed(r, n) makes IsProcessed(r, n) true
\* in memory and in the persisted state; and every operation other than
\* RemoveRepo(r) keeps it true in both.
C35_ProcessedStays ==
    [][\A r \in RepoIds, n \in IssueNums :
          /\ (~IsProcessed(r, n) /\ ~IsProcessedOnDisk(r, n) /\ ~ApiMarkProcessed(r, n))
                => ~IsProcessed(r, n)' /\ ~IsProcessedOnDisk(r, n)'
          /\ ApiMarkProcessed(r, n)
                => IsProcessed(r, n)' /\ IsProcessedOnDisk(r, n)'
          /\ (IsProcessed(r, n) /\ ~ApiRemoveRepo(r)) => IsProcessed(r, n)'
          /\ (IsProcessedOnDisk(r, n) /\ ~ApiRemoveRepo(r))
                => IsProcessedOnDisk(r, n)']_vars

\* The same of the calls whose saveState succeeds: in memory through the steps
\* of one process, in state.json while the memory holds the number too.
ProcessedStaysWhileSaved ==
    [][\A r \in RepoIds, n \in IssueNums :
          /\ (ApiMarkProcessed(r, n) /\ faultsLeft' = faultsLeft)
                => IsProcessed(r, n)' /\ IsProcessedOnDisk(r, n)'
          /\ (IsProcessed(r, n) /\ ~ApiRemoveRepo(r) /\ ~ApiRestart)
                => IsProcessed(r, n)'
          /\ (IsProcessedOnDisk(r, n) /\ IsProcessed(r, n) /\ ~ApiRemoveRepo(r))
                => IsProcessedOnDisk(r, n)']_vars

\* A mark that only the memory holds: MarkProcessed has returned and state.json
\* is without the number.
MarkNotPersisted ==
    \E r \in RepoIds, n \in IssueNums :
        /\ ret.op = "MarkProcessed"
        /\ IsProcessed(r, n)
        /\ ~IsProcessedOnDisk(r, n)

\* A list of numbers in ascending order without a repeated number.
StrictlyAscending(list) ==
    \A i, j \in 1..Len(list) : i < j => list[i] < list[j]

\* C36: the list of every repository, in memory and in state.json, holds each
\* number once and in ascending order.
C36_ProcessedSortedSet ==
    /\ \A r \in DOMAIN state.Processed : StrictlyAscending(state.Processed[r])
    /\ \A r \in DOMAIN loadState(stateFile).Processed :
          StrictlyAscending(loadState(stateFile).Processed[r])

\* MarkProcessed adds the number it is given and no other, to the list of the
\* repository it is given and to no other.
MarkAppends ==
    [][\A r \in RepoIds, n \in IssueNums :
          ApiMarkProcessed(r, n) =>
              /\ state'.Processed[r] =
                    (IF r \in DOMAIN state.Processed THEN state.Processed[r] ELSE <<>>)
                        \o <<n>>
              /\ \A q \in (DOMAIN state'.Processed) \ {r} :
                    q \in DOMAIN state.Processed
                    /\ state'.Processed[q] = state.Processed[q]]_vars

\* ---------------------------------------------------------------------------
\* The repository-level error.
\* ---------------------------------------------------------------------------

\* The operator adds and removes the repository and starts and pauses its
\* issues, up to MaxKeysRepoErr commands; the poll timer fires up to
\* MaxTicksRepoErr times and one call fails.
MaxKeysRepoErr == 3
MaxTicksRepoErr == 1

InitRepoErr ==
    /\ watchers = EmptyMap
    /\ repoWatchers = {}
    /\ knownIssues = EmptyMap
    /\ issueCtxs = EmptyMap
    /\ state = loadState(NoFile)
    /\ stateFile = NoFile
    /\ tmpFile = NoFile
    /\ savePc = SaveIdle
    /\ workdirs = {}
    /\ commits = {}
    /\ logFiles = EmptyMap
    /\ ctxCount = 0
    /\ cancelled = {}
    /\ pollers = EmptyMap
    /\ workers = EmptyMap
    /\ launching = {}
    /\ eventCh = <<>>
    /\ issues = <<>>
    /\ logs = EmptyMap
    /\ repoErrors = {}
    /\ ptySessions = EmptyMap
    /\ execMsgs = {}
    /\ phase = "new"
    /\ ret = [op |-> "NewManager", err |-> FALSE]
    /\ restarts = 0
    /\ faultsLeft = MaxFaults
    /\ ticksLeft = MaxTicksRepoErr
    /\ keysLeft = MaxKeysRepoErr
    /\ agentLines = MaxLinesQuiet
    /\ LibIdle

NextRepoErr ==
    \/ MainStart
    \/ HandleEvent
    \/ \E i \in 1..Len(issues) : toggleIssueProcessing(i, TRUE)
    \/ KeyAddRepo(QuietRepo)
    \/ removeSelectedRepoConfirmed(QuietRepo)
    \/ PollerStep
    \/ WorkerStepQuiet

SpecRepoErr == InitRepoErr /\ [][NextRepoErr]_vars

\* In this step the Model handles a repository-level event of kind k for r.
HandlesRepoEvent(k, r) ==
    /\ HandleEvent
    /\ Head(eventCh).Kind = k
    /\ Head(eventCh).Repo = r
    /\ Head(eventCh).IssueNum = 0

\* The status of every tracked issue, in order.
StatusList(list) == [i \in 1..Len(list) |-> list[i].Status]

\* C37: handling an error event with issue number 0 sets the repository's
\* error, handling a pollDone clears it, and no other step changes it; the
\* handling of a repository-level event leaves every tracked issue's status as
\* it is, and it takes effect whatever the statuses are.
C37_RepoErrorFollowsPolls ==
    [][\A r \in RepoIds :
          /\ HandlesRepoEvent("Error", r) => r \in repoErrors'
          /\ HandlesRepoEvent("PollDone", r) => r \notin repoErrors'
          /\ (~HandlesRepoEvent("Error", r) /\ ~HandlesRepoEvent("PollDone", r))
                => (r \in repoErrors' <=> r \in repoErrors)
          /\ \A k \in {"PollStart", "PollDone", "Error"} :
                HandlesRepoEvent(k, r) => StatusList(issues') = StatusList(issues)]_vars

\* The same, the error being dropped also when the operator removes the
\* repository.
C37_RepoErrorFollowsPollsAndRemoval ==
    [][\A r \in RepoIds :
          /\ HandlesRepoEvent("Error", r) => r \in repoErrors'
          /\ HandlesRepoEvent("PollDone", r) => r \notin repoErrors'
          /\ removeSelectedRepoConfirmed(r) => r \notin repoErrors'
          /\ (/\ ~HandlesRepoEvent("Error", r)
              /\ ~HandlesRepoEvent("PollDone", r)
              /\ ~removeSelectedRepoConfirmed(r))
                => (r \in repoErrors' <=> r \in repoErrors)
          /\ \A k \in {"PollStart", "PollDone", "Error"} :
                HandlesRepoEvent(k, r) => StatusList(issues') = StatusList(issues)]_vars

\* The error of a repository is set, one of its issues is paused, and the
\* next event to handle is a pollDone of the repository.
C37_Witness ==
    /\ eventCh # <<>>
    /\ Head(eventCh).Kind = "PollDone"
    /\ Head(eventCh).Repo \in repoErrors
    /\ \E i \in 1..Len(issues) :
          issues[i].Repo = Head(eventCh).Repo /\ issues[i].Status = "paused"

\* ---------------------------------------------------------------------------
\* The durable state under polling and across a restart.
\* ---------------------------------------------------------------------------

\* The timer ticks of the pollers in a run of the Manager on its own.
MaxTicksDurable == 1

InitDurable ==
    /\ watchers = EmptyMap
    /\ repoWatchers = {}
    /\ knownIssues = EmptyMap
    /\ issueCtxs = EmptyMap
    /\ state = loadState(NoFile)
    /\ stateFile = NoFile
    /\ tmpFile = NoFile
    /\ savePc = SaveIdle
    /\ workdirs = {}
    /\ commits = {}
    /\ logFiles = EmptyMap
    /\ ctxCount = 0
    /\ cancelled = {}
    /\ pollers = EmptyMap
    /\ workers = EmptyMap
    /\ launching = {}
    /\ eventCh = <<>>
    /\ issues = <<>>
    /\ logs = EmptyMap
    /\ repoErrors = {}
    /\ ptySessions = EmptyMap
    /\ execMsgs = {}
    /\ phase = "new"
    /\ ret = [op |-> "NewManager", err |-> FALSE]
    /\ restarts = 0
    /\ faultsLeft = MaxFaults
    /\ ticksLeft = MaxTicksDurable
    /\ keysLeft = 0
    /\ agentLines = MaxClaudeLogs
    /\ LibIdle

\* A caller adds and removes the repository, marks its issues, restarts the
\* process and calls Start, while the pollers poll.
NextDurable ==
    \/ ApiAddRepo(QuietRepo)
    \/ ApiRemoveRepo(QuietRepo)
    \/ \E num \in IssueNums : ApiMarkProcessed(QuietRepo, num)
    \/ ApiStart
    \/ ApiRestart
    \/ PollerStep

SpecDurable == InitDurable /\ [][NextDurable]_vars

\* In this step a caller's AddRepo, RemoveRepo or MarkProcessed runs.
WritingCall ==
    \E repo \in RepoIds :
        \/ ApiAddRepo(repo)
        \/ ApiRemoveRepo(repo)
        \/ \E num \in IssueNums : ApiMarkProcessed(repo, num)

\* The repositories of the pollers that this step starts.
StartedFor == {pollers'[id].repo : id \in (DOMAIN pollers') \ (DOMAIN pollers)}

\* C38: a step of a poller leaves the state and its files as they are;
\* state.json changes only in AddRepo, RemoveRepo and MarkProcessed, to the
\* state that the call has made; NewManager starts with an empty known-set, no
\* poller and the state of state.json, and the Start that follows it starts
\* pollers for the repositories of state.json and no others, no issue known.
C38_PollingKeepsDurableState ==
    [][/\ PollerStep => UNCHANGED <<state, stateFile, tmpFile>>
       /\ stateFile' # stateFile => WritingCall /\ stateFile' = MarshalState(state')
       /\ ApiRestart =>
             /\ knownIssues' = EmptyMap
             /\ pollers' = EmptyMap
             /\ state' = loadState(stateFile)
             /\ stateFile' = stateFile
       /\ (ApiStart /\ ret.op = "NewManager") =>
             /\ StartedFor = Range(loadState(stateFile).Repos)
             /\ DOMAIN watchers' = Range(loadState(stateFile).Repos)
             /\ knownIssues' = EmptyMap]_vars

\* After a restart the pollers started for the repositories of state.json have
\* found an issue again.
C38_Witness ==
    /\ restarts > 0
    /\ ret.op = "Start"
    /\ loadState(stateFile).Repos # <<>>
    /\ \E id \in DOMAIN pollers : pollers[id].repo \in Range(loadState(stateFile).Repos)
    /\ DOMAIN knownIssues # {}

\* ---------------------------------------------------------------------------
\* The events of a worker that has been replaced.
\* ---------------------------------------------------------------------------

\* The worker most recently started for the key is running and has not emitted
\* an event yet.
CurrentWorkerSilent(key) ==
    /\ key \in DOMAIN issueCtxs
    /\ issueCtxs[key] \in DOMAIN workers
    /\ workers[issueCtxs[key]].sent = "none"

\* In this step the Model handles the event ev of a worker and a tracked issue
\* changes: its status, its workdir or its error.
AppliesWorkerEvent(ev) ==
    /\ HandleEvent
    /\ ev = Head(eventCh)
    /\ ev.IssueNum > 0
    /\ ev.Kind # "IssueFound"
    /\ issues' # issues

\* C39: an event of a worker changes a tracked issue only if the worker most
\* recently started for the issue has emitted it, so none does while that
\* worker has not emitted anything yet.
C39_OnlyCurrentWorkerApplies ==
    [][\A ev \in Range(eventCh) :
          AppliesWorkerEvent(ev) =>
              ~CurrentWorkerSilent(IssueKey(ev.Repo, ev.IssueNum))]_vars

====
